---- MODULE Spec2Model ----
(***************************************************************************)
(* State-machine model of the two games of the repository:                 *)
(*   src/time_runners_game.py  "Time Runners: Paradox Shift"  (game = "TR") *)
(*   src/shadow_tag.py         "Shadow Tag"                   (game = "ST") *)
(*                                                                         *)
(* One frame of either main loop is handle_events() followed by update();  *)
(* draw() and clock.tick() change no game state.  pc names the call the    *)
(* loop makes next.                                                        *)
(*                                                                         *)
(* Python floats are kept in fixed point: a real v is the integer v*SCALE, *)
(* a product of two reals is divided by SCALE (rounded down).  Whole       *)
(* numbers and the halves/300ths the games start from are exact.           *)
(* Purely visual state (particles, trails, animation phases, colours) is   *)
(* never read by the game logic and is left out.                           *)
(***************************************************************************)
EXTENDS Integers, Sequences, FiniteSets, TLC

VARIABLES
    program,      \* "TR": time_runners_game.py, "ST": shadow_tag.py, "BUF": the replay
                  \* buffer of time_runners_game.py alone, at a small capacity
    pc,           \* "events": handle_events() is next; "update": update() is next
    running,      \* FALSE once sys.exit() was called
    game,         \* the Game object (a record of its fields)
    globals,      \* Shadow Tag: the module globals that handle_events() rebinds
    keys,         \* Shadow Tag: the arrow keys that are down (pygame.key.get_pressed())
    \* ---- history of the run (not program state)
    frame,        \* Time Runners: frames on which input was sampled since the last reset;
                  \* Shadow Tag: calls of update() since the last reset
    key_changes,  \* Shadow Tag: changes of the arrow keys since the last reset
    pressed,      \* Time Runners: the sampled frames (since reset) with the jump key down
    past_action,  \* Time Runners: local past_action of the latest sampling frame
    jump_log,     \* Time Runners: present runner's latest jump [active, y0, n, tf1]
    pushed,       \* buffer scenario: the values pushed so far
    popped,       \* buffer scenario: the delayed values read so far
    hist          \* what the latest call did: [restart], the end state ("game_over",
                  \* "win") that handle_events() called reset() from, or "none"

vars == <<program, pc, running, game, globals, keys, frame, key_changes, pressed,
          past_action, jump_log, pushed, popped, hist>>

----------------------------------------------------------------------------
(* Bounds of the model *)

\* input is sampled on at most MaxFrames frames per run
MaxFrames == 242
\* the jump key is down only on frames k of a run with
\* PressStart <= k % DELAY_FRAMES < PressStart + PressWindow
PressStart == 70
PressWindow == 1
\* at most MaxEvents events are delivered to one handle_events() call
MaxEvents == 1
\* the buffer scenario: capacities 1..MaxCap, at most MaxPushes pushes
MaxCap == 4
MaxPushes == 5
\* Shadow Tag: levels 1..MaxLevel are played
MaxLevel == 3
\* Shadow Tag: the arrow keys change at most MaxKeyChanges times per run, and
\* only before update() number KeyWindow of the run
MaxKeyChanges == 1
KeyWindow == 2
LateKeyStart == 2333
\* where the jump key may stay down: on HoldWindow frames from PressStart on
HoldWindow == 2
\* a runner on its own: at most MaxRunnerSteps calls of update()
MaxRunnerSteps == 3
\* Shadow Tag with the shadows spread out: at most MaxTagFrames calls of
\* update() per run
MaxTagFrames == 90
\* Shadow Tag with every arrow key: at most MaxWallFrames calls of update()
MaxWallFrames == 95
\* Time Runners, the intro: at most MaxIntroEvents events queued per frame
MaxIntroEvents == 4

----------------------------------------------------------------------------
(* Fixed point *)

SLOW_MO_DISTANCE == 150
\* resolution of the fixed point: 1/300, so that the slow-motion factor
\* 0.5 + 0.5 * d / 150 is exact for every whole distance d
SCALE == 2 * SLOW_MO_DISTANCE

Fx(n) == n * SCALE
\* product of two fixed-point numbers
Mul(a, b) == (a * b) \div SCALE
\* int(v) of Python / pygame.Rect: truncation toward zero
Trunc(v) == IF v >= 0 THEN v \div SCALE ELSE -((-v) \div SCALE)
\* quotient of two fixed-point numbers
Div(a, b) == (a * SCALE) \div b

SetMin(S) == CHOOSE m \in S : \A n \in S : m <= n

----------------------------------------------------------------------------
(* Time Runners: constants *)

SCREEN_WIDTH == 800
SCREEN_HEIGHT == 600
FPS == 60
GRAVITY == 1
JUMP_STRENGTH == -15
OBSTACLE_SPEED == 5
TIMELINE_HEIGHT == SCREEN_HEIGHT \div 2
DELAY_FRAMES == 2 * FPS
\* 0.5, in fixed point
SLOW_MO_FACTOR == SCALE \div 2

RUNNER_X == 100
RUNNER_WIDTH == 20
RUNNER_HEIGHT == 40
OBSTACLE_HEIGHT == 20
SPIKE_HEIGHT == 10
INTRO_PAGES == 3
FIRST_SPAWN_DELAY == 60
MILESTONE_SHOW == 180

PresentGround == TIMELINE_HEIGHT - 60
PastGround == SCREEN_HEIGHT - 60

Milestones == {100, 500, 1000, 2000, 3000, 5000}

----------------------------------------------------------------------------
(* Time Runners: Runner *)

Runner(x, y) ==
    [x |-> Fx(x), y |-> Fx(y), vel_y |-> 0, is_jumping |-> FALSE]

\* faulty variant, for sensitivity checks: jump() marks the jump and gives no impulse
RunnerJumpNoImpulse(r) ==
    IF ~r.is_jumping THEN [r EXCEPT !.is_jumping = TRUE] ELSE r

RunnerJump(r) ==
    IF ~r.is_jumping
    THEN [r EXCEPT !.vel_y = Fx(JUMP_STRENGTH), !.is_jumping = TRUE]
    ELSE r

\* faulty variant, for sensitivity checks: gravity is not applied
RunnerNewVelNoGravity(r, tf) == r.vel_y

\* vel_y after "self.vel_y += GRAVITY * time_factor"
RunnerNewVel(r, tf) == r.vel_y + GRAVITY * tf

\* y after "self.y += self.vel_y * time_factor", before the ground check
RunnerNewY(r, tf) == r.y + Mul(RunnerNewVel(r, tf), tf)

\* faulty variant, for sensitivity checks: the ground check clamps y and keeps the velocity
RunnerUpdateKeepVel(r, ground_y, tf) ==
    IF RunnerNewY(r, tf) + Fx(RUNNER_HEIGHT) > Fx(ground_y)
    THEN [r EXCEPT !.y = Fx(ground_y) - Fx(RUNNER_HEIGHT),
                   !.vel_y = RunnerNewVel(r, tf)]
    ELSE [r EXCEPT !.y = RunnerNewY(r, tf), !.vel_y = RunnerNewVel(r, tf)]

RunnerUpdate(r, ground_y, tf) ==
    IF RunnerNewY(r, tf) + Fx(RUNNER_HEIGHT) > Fx(ground_y)
    THEN [r EXCEPT !.y = Fx(ground_y) - Fx(RUNNER_HEIGHT),
                   !.vel_y = 0,
                   !.is_jumping = FALSE]
    ELSE [r EXCEPT !.y = RunnerNewY(r, tf), !.vel_y = RunnerNewVel(r, tf)]

\* pygame.Rect keeps whole pixels: float coordinates are truncated
RunnerRect(r) ==
    [x |-> Trunc(r.x), y |-> Trunc(r.y), w |-> RUNNER_WIDTH, h |-> RUNNER_HEIGHT]

----------------------------------------------------------------------------
(* Time Runners: Obstacle *)

Obstacle(x, y, width, height) ==
    [x |-> Fx(x), y |-> Fx(y), width |-> width, height |-> height]

ObstacleUpdate(o, speed_factor) ==
    [o EXCEPT !.x = @ - OBSTACLE_SPEED * speed_factor]

ObstacleRect(o) ==
    [x |-> Trunc(o.x), y |-> Trunc(o.y - Fx(SPIKE_HEIGHT)),
     w |-> o.width, h |-> o.height + SPIKE_HEIGHT]

\* pygame.Rect.colliderect for rectangles of positive size
ColliderRect(a, b) ==
    /\ a.x < b.x + b.w
    /\ a.y < b.y + b.h
    /\ a.x + a.w > b.x
    /\ a.y + a.h > b.y

----------------------------------------------------------------------------
(* Time Runners: the replay buffer, a deque(maxlen = DELAY_FRAMES + 1) *)

\* faulty variant, for sensitivity checks: a buffer of DELAY_FRAMES entries
HistoryLenShort == DELAY_FRAMES

HistoryLen == DELAY_FRAMES + 1

\* faulty variant, for sensitivity checks: append without the maxlen
DequeAppendNoDrop(q, v, maxlen) == Append(q, v)

\* deque.append on a deque of the given maxlen: a full deque drops its front
DequeAppend(q, v, maxlen) ==
    IF Len(q) >= maxlen THEN Append(Tail(q), v) ELSE Append(q, v)

\* the loop of reset(): maxlen appends of False
InitialHistory(maxlen) == [i \in 1..maxlen |-> FALSE]

\* faulty variant, for sensitivity checks: read the front before the push
ReadThenPush(q, v, maxlen) ==
    [history |-> DequeAppend(q, v, maxlen), action |-> q[1]]

\* the step of handle_events(): push the sample, then read the front
PushAndRead(q, v, maxlen) ==
    LET history == DequeAppend(q, v, maxlen)
    IN  [history |-> history, action |-> history[1]]

----------------------------------------------------------------------------
(* Time Runners: Game *)

\* current_milestone = None
NoMilestone == 0

\* faulty variant, for sensitivity checks: reset() keeps the score
TRResetKeepScore(g) ==
    [g EXCEPT
        !.present_runner = Runner(RUNNER_X, TIMELINE_HEIGHT - 100),
        !.past_runner = Runner(RUNNER_X, SCREEN_HEIGHT - 100),
        !.game_over = FALSE,
        !.slow_mo_active = FALSE,
        !.time_factor = SCALE,
        !.present_obstacles = <<>>,
        !.past_obstacles = <<>>,
        !.action_history = InitialHistory(HistoryLen),
        !.obstacle_timer = 0,
        !.obstacle_spawn_delay = FIRST_SPAWN_DELAY,
        !.current_milestone = NoMilestone,
        !.milestone_timer = 0]

\* Game.reset(): every field it assigns; show_intro and intro_page are kept
TRReset(g) ==
    [g EXCEPT
        !.present_runner = Runner(RUNNER_X, TIMELINE_HEIGHT - 100),
        !.past_runner = Runner(RUNNER_X, SCREEN_HEIGHT - 100),
        !.score = 0,
        !.game_over = FALSE,
        !.slow_mo_active = FALSE,
        !.time_factor = SCALE,
        !.present_obstacles = <<>>,
        !.past_obstacles = <<>>,
        !.action_history = InitialHistory(HistoryLen),
        !.obstacle_timer = 0,
        !.obstacle_spawn_delay = FIRST_SPAWN_DELAY,
        !.current_milestone = NoMilestone,
        !.milestone_timer = 0]

\* Game.__init__(): reset(), then the intro is shown from its first page
TRGameInit ==
    [TRReset([f \in {"present_runner", "past_runner", "score", "game_over",
                     "slow_mo_active", "time_factor", "present_obstacles",
                     "past_obstacles", "action_history", "obstacle_timer",
                     "obstacle_spawn_delay", "current_milestone", "milestone_timer",
                     "show_intro", "intro_page"} |-> 0])
        EXCEPT !.show_intro = TRUE, !.intro_page = 0]

\* faulty variant, for sensitivity checks: any key-down restarts a game that is over
TREventAnyKeyRestarts(st, e) ==
    IF st.quit THEN st
    ELSE IF e = "QUIT" THEN [st EXCEPT !.quit = TRUE]
    ELSE IF st.g.show_intro
    THEN [st EXCEPT !.g.intro_page = @ + 1,
                    !.g.show_intro = ~(st.g.intro_page + 1 >= INTRO_PAGES)]
    ELSE IF st.g.game_over
    THEN [st EXCEPT !.g = TRReset(@), !.reset = TRUE]
    ELSE st

\* faulty variant, for sensitivity checks: the first key-down ends the intro
TREventOnePage(st, e) ==
    IF st.quit THEN st
    ELSE IF e = "QUIT" THEN [st EXCEPT !.quit = TRUE]
    ELSE IF st.g.show_intro
    THEN [st EXCEPT !.g.intro_page = @ + 1, !.g.show_intro = FALSE]
    ELSE IF e = "K_SPACE" /\ st.g.game_over
    THEN [st EXCEPT !.g = TRReset(@), !.reset = TRUE]
    ELSE st

\* faulty variant, for sensitivity checks: the intro goes on after its last page
TREventKeepsPaging(st, e) ==
    IF st.quit THEN st
    ELSE IF e = "QUIT" THEN [st EXCEPT !.quit = TRUE]
    ELSE IF st.g.show_intro
    THEN [st EXCEPT !.g.intro_page = @ + 1]
    ELSE IF e = "K_SPACE" /\ st.g.game_over
    THEN [st EXCEPT !.g = TRReset(@), !.reset = TRUE]
    ELSE st

\* One event of the loop "for event in pygame.event.get()".  st = [g, quit, reset]:
\* the game, whether sys.exit() was called, whether reset() was called.
TREvent(st, e) ==
    IF st.quit THEN st
    ELSE IF e = "QUIT" THEN [st EXCEPT !.quit = TRUE]
    ELSE IF st.g.show_intro
    THEN [st EXCEPT !.g.intro_page = @ + 1,
                    !.g.show_intro = ~(st.g.intro_page + 1 >= INTRO_PAGES)]
    ELSE IF e = "K_SPACE" /\ st.g.game_over
    THEN [st EXCEPT !.g = TRReset(@), !.reset = TRUE]
    ELSE st

RECURSIVE TREvents(_, _)
TREvents(st, evs) ==
    IF evs = <<>> THEN st ELSE TREvents(TREvent(st, Head(evs)), Tail(evs))

\* faulty variant, for sensitivity checks: the past runner is given this frame's sample
TRSampleUndelayed(g, jump_pressed) ==
    LET present == IF jump_pressed /\ ~g.present_runner.is_jumping
                   THEN RunnerJump(g.present_runner)
                   ELSE g.present_runner
        step == PushAndRead(g.action_history, jump_pressed, HistoryLen)
        past == IF jump_pressed /\ ~g.past_runner.is_jumping
                THEN RunnerJump(g.past_runner)
                ELSE g.past_runner
    IN  [g |-> [g EXCEPT !.present_runner = present,
                         !.action_history = step.history,
                         !.past_runner = past],
         past_action |-> jump_pressed]

\* faulty variant, for sensitivity checks: a runner in a jump jumps again
TRSampleJumpsAgain(g, jump_pressed) ==
    LET Again(r) == [r EXCEPT !.vel_y = Fx(JUMP_STRENGTH), !.is_jumping = TRUE]
        step == PushAndRead(g.action_history, jump_pressed, HistoryLen)
    IN  [g |-> [g EXCEPT !.present_runner = IF jump_pressed THEN Again(@) ELSE @,
                         !.action_history = step.history,
                         !.past_runner = IF step.action THEN Again(@) ELSE @],
         past_action |-> step.action]

\* handle_events() after the event loop: sample the jump key, jump the present
\* runner, push the sample, read the delayed action, jump the past runner.
\* Returns the game and the local past_action.
TRSample(g, jump_pressed) ==
    LET present == IF jump_pressed /\ ~g.present_runner.is_jumping
                   THEN RunnerJump(g.present_runner)
                   ELSE g.present_runner
        step == PushAndRead(g.action_history, jump_pressed, HistoryLen)
        history == step.history
        action == step.action
        past == IF action /\ ~g.past_runner.is_jumping
                THEN RunnerJump(g.past_runner)
                ELSE g.past_runner
    IN  [g |-> [g EXCEPT !.present_runner = present,
                         !.action_history = history,
                         !.past_runner = past],
         past_action |-> action]

\* distances "obstacle.x - (runner.x + runner.width)" of the obstacles ahead
Ahead(obstacles, runner) ==
    {obstacles[i].x - (runner.x + Fx(RUNNER_WIDTH)) :
        i \in {j \in 1..Len(obstacles) : obstacles[j].x > runner.x}}

\* check_slow_motion(): sets slow_mo_active and time_factor
CheckSlowMotion(g) ==
    LET dist == Ahead(g.present_obstacles, g.present_runner)
                \cup Ahead(g.past_obstacles, g.past_runner)
    IN  IF dist # {} /\ SetMin(dist) < Fx(SLOW_MO_DISTANCE)
        THEN [g EXCEPT !.slow_mo_active = TRUE,
                       !.time_factor = SLOW_MO_FACTOR
                           + Mul(SCALE - SLOW_MO_FACTOR,
                                 Div(SetMin(dist), Fx(SLOW_MO_DISTANCE)))]
        ELSE [g EXCEPT !.slow_mo_active = FALSE, !.time_factor = SCALE]

\* faulty variant, for sensitivity checks: no obstacle is ever removed
MoveObstaclesKeepsAll(obstacles, tf) ==
    [i \in 1..Len(obstacles) |-> ObstacleUpdate(obstacles[i], tf)]

\* "for obstacle in obstacles[:]: obstacle.update(tf); remove it once off-screen"
MoveObstacles(obstacles, tf) ==
    LET moved == [i \in 1..Len(obstacles) |-> ObstacleUpdate(obstacles[i], tf)]
        OnScreen(o) == ~(o.x + Fx(o.width) < 0)
    IN  SelectSeq(moved, OnScreen)

\* the collision test of update() for one timeline
Collides(runner, obstacles) ==
    \E i \in 1..Len(obstacles) :
        ColliderRect(RunnerRect(runner), ObstacleRect(obstacles[i]))

\* the milestone loop of update(): the first milestone reached and not yet shown
ReachedMilestones(g) ==
    {m \in Milestones : Trunc(g.score) >= m
                        /\ (g.current_milestone = NoMilestone \/ m > g.current_milestone)}

\* faulty variant, for sensitivity checks: the spawn timer counts frames, not
\* time factors
TRUpdateTimerInFrames(g0, delay, width) ==
    IF g0.show_intro \/ g0.game_over THEN g0
    ELSE
    LET g1 == CheckSlowMotion(g0)
        tf == g1.time_factor
        present == RunnerUpdate(g1.present_runner, PresentGround, tf)
        past == RunnerUpdate(g1.past_runner, PastGround, tf)
        timer == g1.obstacle_timer + SCALE
        spawn == timer >= Fx(g1.obstacle_spawn_delay)
        pobs == MoveObstacles(
                   IF spawn
                   THEN Append(g1.present_obstacles,
                               Obstacle(SCREEN_WIDTH, PresentGround, width, OBSTACLE_HEIGHT))
                   ELSE g1.present_obstacles, tf)
        qobs == MoveObstacles(
                   IF spawn
                   THEN Append(g1.past_obstacles,
                               Obstacle(SCREEN_WIDTH, PastGround, width, OBSTACLE_HEIGHT))
                   ELSE g1.past_obstacles, tf)
        over == Collides(present, pobs) \/ Collides(past, qobs)
        g2 == [g1 EXCEPT !.present_runner = present,
                         !.past_runner = past,
                         !.obstacle_timer = IF spawn THEN 0 ELSE timer,
                         !.obstacle_spawn_delay = IF spawn THEN delay ELSE @,
                         !.present_obstacles = pobs,
                         !.past_obstacles = qobs,
                         !.game_over = @ \/ over,
                         !.score = IF over THEN @ ELSE @ + tf]
        g3 == IF ~over /\ ReachedMilestones(g2) # {}
              THEN [g2 EXCEPT !.current_milestone = SetMin(ReachedMilestones(g2)),
                              !.milestone_timer = Fx(MILESTONE_SHOW)]
              ELSE g2
    IN  IF g3.milestone_timer > 0
        THEN [g3 EXCEPT !.milestone_timer = @ - tf]
        ELSE g3

\* Game.update(); delay and width are the draws of random.randint
TRUpdate(g0, delay, width) ==
    IF g0.show_intro \/ g0.game_over THEN g0
    ELSE
    LET g1 == CheckSlowMotion(g0)
        tf == g1.time_factor
        present == RunnerUpdate(g1.present_runner, PresentGround, tf)
        past == RunnerUpdate(g1.past_runner, PastGround, tf)
        timer == g1.obstacle_timer + tf
        spawn == timer >= Fx(g1.obstacle_spawn_delay)
        pobs == MoveObstacles(
                   IF spawn
                   THEN Append(g1.present_obstacles,
                               Obstacle(SCREEN_WIDTH, PresentGround, width, OBSTACLE_HEIGHT))
                   ELSE g1.present_obstacles, tf)
        qobs == MoveObstacles(
                   IF spawn
                   THEN Append(g1.past_obstacles,
                               Obstacle(SCREEN_WIDTH, PastGround, width, OBSTACLE_HEIGHT))
                   ELSE g1.past_obstacles, tf)
        over == Collides(present, pobs) \/ Collides(past, qobs)
        g2 == [g1 EXCEPT !.present_runner = present,
                         !.past_runner = past,
                         !.obstacle_timer = IF spawn THEN 0 ELSE timer,
                         !.obstacle_spawn_delay = IF spawn THEN delay ELSE @,
                         !.present_obstacles = pobs,
                         !.past_obstacles = qobs,
                         !.game_over = @ \/ over,
                         !.score = IF over THEN @ ELSE @ + tf]
        g3 == IF ~over /\ ReachedMilestones(g2) # {}
              THEN [g2 EXCEPT !.current_milestone = SetMin(ReachedMilestones(g2)),
                              !.milestone_timer = Fx(MILESTONE_SHOW)]
              ELSE g2
    IN  IF g3.milestone_timer > 0
        THEN [g3 EXCEPT !.milestone_timer = @ - tf]
        ELSE g3

----------------------------------------------------------------------------
(* The environment: events and keys *)

\* an event is "QUIT" or the key of a KEYDOWN event; handle_events tells
\* K_SPACE from every other key, K_ESCAPE stands for the others (the held
\* K_UP is read with get_pressed, see jump_pressed)
TRKeys == {"K_SPACE", "K_ESCAPE"}
TREventKinds == {"QUIT"} \cup TRKeys

EventSeqs(kinds) == UNION {[1..n -> kinds] : n \in 0..MaxEvents}

\* draws of random.randint(45, 90), the low end (the obstacles come as dense
\* as they can), and of random.randint(30, 80), the two ends
SpawnDelays == {45}
ObstacleWidths == {30, 80}

\* the frames on which the model lets the jump key be down
PressAllowedIn(k, window) ==
    /\ k % DELAY_FRAMES >= PressStart
    /\ k % DELAY_FRAMES < PressStart + window

PressAllowed(k) == PressAllowedIn(k, PressWindow)

NoJump == [active |-> FALSE, y0 |-> 0, n |-> 0, tf1 |-> FALSE]

\* Time Runners rebinds no module global
NoGlobals == [SHADOW_COUNT |-> 0, LIGHT_SHRINK_RATE |-> 0]

\* how far a runner's feet are above its ground line
Height(r, ground_y) == Fx(ground_y) - (r.y + Fx(RUNNER_HEIGHT))

\* hist at the start: no restart was made, no Playing tick was run (trail: the
\* present runner's height after each of the latest DELAY_FRAMES + 1 Playing
\* ticks, starts: the Playing ticks on which it started a jump, spawned: the
\* number of the Playing tick that spawned the latest obstacles, 0 for none,
\* gap: the Playing ticks from the spawn before it to that one, 0 for none,
\* removed: how many obstacles have left the present timeline, turned: the
\* intro pages turned by the latest handle_events())
NoHist == [restart |-> "none", trail |-> <<>>, starts |-> {}, spawned |-> 0, gap |-> 0,
           removed |-> 0, turned |-> 0]

----------------------------------------------------------------------------
(* Time Runners: the main loop *)

TRInit ==
    /\ program = "TR"
    /\ pc = "events"
    /\ running = TRUE
    /\ game = TRGameInit
    /\ globals = NoGlobals
    /\ keys = {}
    /\ key_changes = 0
    /\ frame = 0
    /\ pressed = {}
    /\ past_action = FALSE
    /\ jump_log = NoJump
    /\ pushed = <<>>
    /\ popped = <<>>
    /\ hist = NoHist

\* game.handle_events() with the events evs queued and the jump key as given,
\* where the key may be down on window frames from PressStart on
TRHandle(evs, jump_pressed, window) ==
    /\ program = "TR" /\ running /\ pc = "events"
    /\ LET st == TREvents([g |-> game, quit |-> FALSE, reset |-> FALSE], evs)
           k == IF st.reset THEN 0 ELSE frame
           smp == IF st.reset THEN {} ELSE pressed
           log == IF st.reset THEN NoJump ELSE jump_log
           sampled == ~st.quit /\ ~st.g.show_intro
           res == TRSample(st.g, jump_pressed)
           jumped == jump_pressed /\ ~st.g.present_runner.is_jumping
       IN  /\ IF sampled
              THEN k < MaxFrames /\ (jump_pressed => PressAllowedIn(k, window))
              ELSE ~jump_pressed
           /\ running' = ~st.quit
           /\ pc' = IF st.quit THEN pc ELSE "update"
           /\ game' = IF sampled THEN res.g ELSE st.g
           /\ frame' = IF sampled THEN k + 1 ELSE k
           /\ pressed' = IF sampled /\ jump_pressed THEN smp \cup {k} ELSE smp
           /\ past_action' = IF sampled THEN res.past_action
                             ELSE IF st.reset THEN FALSE ELSE past_action
           /\ jump_log' = IF sampled /\ jumped
                          THEN [active |-> TRUE, y0 |-> st.g.present_runner.y,
                                n |-> 0, tf1 |-> TRUE]
                          ELSE log
           /\ hist' = [restart |-> IF st.reset THEN "game_over" ELSE "none",
                       trail |-> IF st.reset THEN <<>> ELSE hist.trail,
                       starts |-> (IF st.reset THEN {} ELSE hist.starts)
                                  \cup (IF sampled /\ jumped /\ ~st.g.game_over
                                        THEN {k} ELSE {}),
                       spawned |-> IF st.reset THEN 0 ELSE hist.spawned,
                       gap |-> IF st.reset THEN 0 ELSE hist.gap,
                       removed |-> IF st.reset THEN 0 ELSE hist.removed,
                       turned |-> st.g.intro_page - game.intro_page]
    /\ UNCHANGED <<program, globals, keys, key_changes, pushed, popped>>

TRHandleEvents(evs, jump_pressed) == TRHandle(evs, jump_pressed, PressWindow)

\* game.update() with the random draws as given
TRFrameUpdate(delay, width) ==
    /\ program = "TR" /\ running /\ pc = "update"
    /\ game' = TRUpdate(game, delay, width)
    /\ pc' = "events"
    /\ jump_log' = IF jump_log.active /\ ~game.show_intro /\ ~game.game_over
                   THEN [jump_log EXCEPT !.n = @ + 1,
                                         !.tf1 = @ /\ game'.time_factor = SCALE]
                   ELSE jump_log
    /\ hist' = [hist EXCEPT
                   !.restart = "none",
                   !.trail = IF game.show_intro \/ game.game_over THEN @
                             ELSE LET hs == Append(@, Height(game'.present_runner,
                                                            PresentGround))
                                  IN  IF Len(hs) > DELAY_FRAMES + 1 THEN Tail(hs) ELSE hs,
                   !.spawned = IF game.show_intro \/ game.game_over THEN @
                               ELSE IF game'.obstacle_timer = 0 THEN frame ELSE @,
                   !.gap = IF game.show_intro \/ game.game_over THEN @
                           ELSE IF game'.obstacle_timer = 0 /\ hist.spawned > 0
                                THEN frame - hist.spawned ELSE @,
                   !.removed = IF game.show_intro \/ game.game_over THEN @
                               ELSE @ + Len(game.present_obstacles)
                                      + (IF game'.obstacle_timer = 0 THEN 1 ELSE 0)
                                      - Len(game'.present_obstacles)]
    /\ UNCHANGED <<program, running, globals, keys, key_changes, frame, pressed,
                   past_action, pushed, popped>>

TRNext ==
    \/ \E evs \in EventSeqs(TREventKinds), jump_pressed \in BOOLEAN :
          TRHandleEvents(evs, jump_pressed)
    \/ \E delay \in SpawnDelays, width \in ObstacleWidths :
          TRFrameUpdate(delay, width)

SpecTR == TRInit /\ [][TRNext]_vars

----------------------------------------------------------------------------
(* Time Runners with the spawn delay drawn from both ends of its range *)

\* draws of random.randint(45, 90): the two ends
SpawnDelayEnds == {45, 90}

SpawnNext ==
    \/ \E evs \in EventSeqs(TREventKinds), jump_pressed \in BOOLEAN :
          TRHandleEvents(evs, jump_pressed)
    \/ \E delay \in SpawnDelayEnds, width \in ObstacleWidths :
          TRFrameUpdate(delay, width)

SpecSpawn == TRInit /\ [][SpawnNext]_vars

----------------------------------------------------------------------------
(* Time Runners with the jump key held for more than one frame *)

JumpNext ==
    \/ \E evs \in EventSeqs(TREventKinds), jump_pressed \in BOOLEAN :
          TRHandle(evs, jump_pressed, HoldWindow)
    \/ \E delay \in SpawnDelays, width \in ObstacleWidths :
          TRFrameUpdate(delay, width)

SpecJump == TRInit /\ [][JumpNext]_vars

----------------------------------------------------------------------------
(* Time Runners with several events queued in one frame of the intro *)

\* what pygame.event.get() returns: up to n events of the given kinds
SeqsUpTo(kinds, n) == UNION {[1..m -> kinds] : m \in 0..n}

PagingNext ==
    \/ \E evs \in (IF game.show_intro THEN SeqsUpTo(TREventKinds, MaxIntroEvents)
                   ELSE EventSeqs(TREventKinds)),
          jump_pressed \in BOOLEAN :
          TRHandleEvents(evs, jump_pressed)
    \/ \E delay \in SpawnDelays, width \in ObstacleWidths :
          TRFrameUpdate(delay, width)

SpecPaging == TRInit /\ [][PagingNext]_vars

----------------------------------------------------------------------------
(* The replay buffer alone: reset()'s pre-fill and handle_events()'s            *)
(* push-then-read step on a deque of a small maxlen                            *)

BufInit ==
    /\ program = "BUF"
    /\ pc = "events"
    /\ running = TRUE
    /\ \E maxlen \in 1..MaxCap :
          game = [maxlen |-> maxlen, action_history |-> InitialHistory(maxlen)]
    /\ globals = NoGlobals
    /\ keys = {}
    /\ key_changes = 0
    /\ frame = 0
    /\ pressed = {}
    /\ past_action = FALSE
    /\ jump_log = NoJump
    /\ pushed = <<>>
    /\ popped = <<>>
    /\ hist = NoHist

BufPush(v) ==
    /\ program = "BUF"
    /\ Len(pushed) < MaxPushes
    /\ LET step == PushAndRead(game.action_history, v, game.maxlen)
       IN  /\ game' = [game EXCEPT !.action_history = step.history]
           /\ past_action' = step.action
           /\ popped' = Append(popped, step.action)
    /\ pushed' = Append(pushed, v)
    /\ UNCHANGED <<program, pc, running, globals, keys, key_changes, frame, pressed,
                   jump_log, hist>>

BufNext == \E v \in BOOLEAN : BufPush(v)

SpecBuf == BufInit /\ [][BufNext]_vars

----------------------------------------------------------------------------
(* A Runner on its own: jump() and update() from any position and velocity *)

\* y of the runner before the call, in pixels: above, on and below the ground
RunnerYs == {0, 150, 200, 201, 239, 400}

\* vel_y before the call, in pixels per frame
RunnerVels == {-15, -1, 0, 1, 30}

\* time factors passed by Game.update: full speed and slow motion
TimeFactors == {SCALE, SLOW_MO_FACTOR, SCALE \div 4}

RunInit ==
    /\ program = "RUN"
    /\ pc = "update"
    /\ running = TRUE
    /\ \E y \in RunnerYs, v \in RunnerVels, j \in BOOLEAN,
          ground_y \in {PresentGround, PastGround} :
          game = [runner |-> [Runner(RUNNER_X, y) EXCEPT !.vel_y = Fx(v),
                                                         !.is_jumping = j],
                  ground_y |-> ground_y,
                  time_factor |-> SCALE,
                  below |-> FALSE]
    /\ globals = NoGlobals
    /\ keys = {}
    /\ key_changes = 0
    /\ frame = 0
    /\ pressed = {}
    /\ past_action = FALSE
    /\ jump_log = NoJump
    /\ pushed = <<>>
    /\ popped = <<>>
    /\ hist = NoHist

\* runner.jump() of a runner that is not in a jump
RunJump ==
    /\ program = "RUN"
    /\ ~game.runner.is_jumping
    /\ game' = [game EXCEPT !.runner = RunnerJump(game.runner)]
    /\ UNCHANGED <<program, pc, running, globals, keys, key_changes, frame, pressed,
                   past_action, jump_log, pushed, popped, hist>>

\* runner.update(ground_y, tf); "below" records that the new position was under
\* the ground line before the ground check
RunUpdate(tf) ==
    /\ program = "RUN"
    /\ frame < MaxRunnerSteps
    /\ game' = [game EXCEPT
                   !.runner = RunnerUpdate(game.runner, game.ground_y, tf),
                   !.time_factor = tf,
                   !.below = (RunnerNewY(game.runner, tf) + Fx(RUNNER_HEIGHT)
                                  > Fx(game.ground_y))]
    /\ frame' = frame + 1
    /\ UNCHANGED <<program, pc, running, globals, keys, key_changes, pressed,
                   past_action, jump_log, pushed, popped, hist>>

RunNext ==
    \/ RunJump
    \/ \E tf \in TimeFactors : RunUpdate(tf)

SpecRun == RunInit /\ [][RunNext]_vars

----------------------------------------------------------------------------
(* Shadow Tag: constants and module globals *)

PLAYER_SPEED == 5
SHADOW_SPEED == 2
INITIAL_LIGHT_RADIUS == 150
\* 0.05 as the double it is, 0x1999999999999A * 2^-57, in the limbs of Float
\* below: the value LIGHT_SHRINK_RATE is first bound to
LIGHT_SHRINK_RATE == <<102, 6710886, 6710888>>
MIN_LIGHT_RADIUS == 30
SHADOW_COUNT == 5
SHADOW_SIZE == 15
PLAYER_SIZE == 10
\* 0.01 as the double it is, 0x147AE147AE147B * 2^-59: what a cleared level
\* adds to LIGHT_SHRINK_RATE
SHRINK_RATE_STEP == <<20, 8053063, 11408507>>
SHADOW_COUNT_STEP == 2
FADE_START == 255
FADE_STEP == 15
TAG_SCORE == 100
\* max(0.2, light_factor)
MIN_LIGHT_FACTOR == SCALE \div 5
\* "if light_percent < 25"
LIGHT_WARNING_PERCENT == 25

STGlobals == [SHADOW_COUNT |-> SHADOW_COUNT, LIGHT_SHRINK_RATE |-> LIGHT_SHRINK_RATE]

Abs(v) == IF v < 0 THEN -v ELSE v
Max(a, b) == IF a >= b THEN a ELSE b

RECURSIVE SqrtSearch(_, _, _)
SqrtSearch(n, lo, hi) ==
    IF lo = hi THEN lo
    ELSE LET mid == (lo + hi + 1) \div 2
         IN  IF mid * mid <= n THEN SqrtSearch(n, mid, hi) ELSE SqrtSearch(n, lo, mid - 1)

\* math.sqrt of a whole number below 2^31, rounded down
ISqrt(n) == SqrtSearch(n, 0, 46340)

\* "math.sqrt(dx ** 2 + dy ** 2) < r" for fixed-point dx, dy, r
DistanceBelow(dx, dy, r) ==
    /\ Abs(dx) < r
    /\ Abs(dy) < r
    /\ dx * dx < r * r - dy * dy

\* math.sqrt(dx ** 2 + dy ** 2), used where the distance is below the light radius
Distance(dx, dy) == ISqrt(dx * dx + dy * dy)

----------------------------------------------------------------------------
(* Shadow Tag: the doubles of the light.  light_radius and LIGHT_SHRINK_RATE *)
(* are Python floats that only meet +, -, max and comparisons, so they are   *)
(* kept exactly: a double x >= 0 is the whole number x * 2^59 written as     *)
(* three limbs <<h, m, l>> of 24 bits, x * 2^59 = h * 2^48 + m * 2^24 + l.   *)
(* Every double from 2^-7 to 2^12 is such a number.                          *)

FB == 2 ^ 24

\* float(n) for a whole number n
FromInt(n) == <<n * 2048, 0, 0>>

\* a < b
FLess(a, b) ==
    \/ a[1] < b[1]
    \/ a[1] = b[1] /\ a[2] < b[2]
    \/ a[1] = b[1] /\ a[2] = b[2] /\ a[3] < b[3]

\* the exact sum and, for a >= b, the exact difference
FSum(a, b) ==
    LET l == a[3] + b[3]
        m == a[2] + b[2] + l \div FB
        h == a[1] + b[1] + m \div FB
    IN  <<h, m % FB, l % FB>>

FDiff(a, b) ==
    LET l == a[3] - b[3]
        bl == IF l < 0 THEN 1 ELSE 0
        m == a[2] - b[2] - bl
        bm == IF m < 0 THEN 1 ELSE 0
    IN  <<a[1] - b[1] - bm, m + bm * FB, l + bl * FB>>

RECURSIVE FLog2(_)
FLog2(h) == IF h <= 1 THEN 0 ELSE 1 + FLog2(h \div 2)

\* the exact value x rounded to a double, to nearest and ties to even: a double
\* in [2^e, 2^(e+1)) is a multiple of 2^(e-52), that is 2^(e+7) of the unit,
\* and 2^e is the limb h = 2^(e+11)
FRound(x) ==
    LET k == Max(0, FLog2(x[1]) - 4)
        u == 2 ^ k
        r == x[3] % u
        down == <<x[1], x[2], x[3] - r>>
        odd == (x[3] \div u) % 2 = 1
        up == r * 2 > u \/ (r * 2 = u /\ odd)
    IN  IF up THEN FSum(down, <<0, 0, u>>) ELSE down

\* the float operations a + b and a - b
FAdd(a, b) == FRound(FSum(a, b))
FSub(a, b) == FRound(FDiff(a, b))

\* a double in the fixed point of the geometry, to the nearest 1 / SCALE
ToFx(x) ==
    (x[1] * (4 * SCALE) + ((x[2] \div 256) * SCALE) \div 16384 + 4096) \div 8192

----------------------------------------------------------------------------
(* Shadow Tag: Player *)

Player(x, y) ==
    [x |-> Fx(x), y |-> Fx(y), light_radius |-> FromInt(INITIAL_LIGHT_RADIUS)]

\* faulty variant, for sensitivity checks: the light radius is not floored
ShrinkNoFloor(light_radius, rate) == FSub(light_radius, rate)

\* the light radius after "max(MIN_LIGHT_RADIUS, self.light_radius - LIGHT_SHRINK_RATE)"
Shrink(light_radius, rate) ==
    LET shrunk == FSub(light_radius, rate)
    IN  IF FLess(FromInt(MIN_LIGHT_RADIUS), shrunk) THEN shrunk
        ELSE FromInt(MIN_LIGHT_RADIUS)

\* faulty variant, for sensitivity checks: the player moves whether or not it
\* is at the edge of the screen
PlayerUpdateNoEdges(p, down, rate) ==
    LET x1 == IF "K_LEFT" \in down THEN p.x - Fx(PLAYER_SPEED) ELSE p.x
        x2 == IF "K_RIGHT" \in down THEN x1 + Fx(PLAYER_SPEED) ELSE x1
        y1 == IF "K_UP" \in down THEN p.y - Fx(PLAYER_SPEED) ELSE p.y
        y2 == IF "K_DOWN" \in down THEN y1 + Fx(PLAYER_SPEED) ELSE y1
    IN  [x |-> x2, y |-> y2, light_radius |-> Shrink(p.light_radius, rate)]

\* Player.update(keys); rate is the global LIGHT_SHRINK_RATE
PlayerUpdate(p, down, rate) ==
    LET x1 == IF "K_LEFT" \in down /\ p.x - Fx(PLAYER_SIZE) > 0
              THEN p.x - Fx(PLAYER_SPEED) ELSE p.x
        x2 == IF "K_RIGHT" \in down /\ x1 + Fx(PLAYER_SIZE) < Fx(SCREEN_WIDTH)
              THEN x1 + Fx(PLAYER_SPEED) ELSE x1
        y1 == IF "K_UP" \in down /\ p.y - Fx(PLAYER_SIZE) > 0
              THEN p.y - Fx(PLAYER_SPEED) ELSE p.y
        y2 == IF "K_DOWN" \in down /\ y1 + Fx(PLAYER_SIZE) < Fx(SCREEN_HEIGHT)
              THEN y1 + Fx(PLAYER_SPEED) ELSE y1
    IN  [x |-> x2, y |-> y2, light_radius |-> Shrink(p.light_radius, rate)]

\* Player.collides_with(shadow)
CollidesWith(p, shadow) ==
    DistanceBelow(p.x - shadow.x, p.y - shadow.y, Fx(PLAYER_SIZE + SHADOW_SIZE))

----------------------------------------------------------------------------
(* Shadow Tag: Shadow.  The heading self.direction is kept as its unit      *)
(* vector (cos, sin).                                                       *)

Shadow(x, y, dir) ==
    [x |-> Fx(x), y |-> Fx(y), cos |-> dir.cos, sin |-> dir.sin,
     change_direction_counter |-> 0, tagged |-> FALSE, fade_out |-> FADE_START]

\* Shadow.update(player); threshold and dir are the draws of random.randint(30, 90)
\* and random.uniform(0, 2 * math.pi)
ShadowUpdate(sh, p, threshold, dir) ==
    IF sh.tagged
    THEN [sh EXCEPT !.fade_out = Max(0, @ - FADE_STEP)]
    ELSE
    LET dx == sh.x - p.x
        dy == sh.y - p.y
        turn == sh.change_direction_counter + 1 > threshold
        counter == IF turn THEN 0 ELSE sh.change_direction_counter + 1
        light == ToFx(p.light_radius)
        in_light == DistanceBelow(dx, dy, light)
        distance == Distance(dx, dy)
        \* angle_to_player + math.pi: away from the player; atan2(0, 0) = 0
        cos == IF in_light
               THEN (IF distance = 0 THEN -SCALE ELSE Div(dx, distance))
               ELSE IF turn THEN dir.cos ELSE sh.cos
        sin == IF in_light
               THEN (IF distance = 0 THEN 0 ELSE Div(dy, distance))
               ELSE IF turn THEN dir.sin ELSE sh.sin
        current_speed == IF in_light
                         THEN SHADOW_SPEED * Max(MIN_LIGHT_FACTOR, Div(distance, light))
                         ELSE Fx(SHADOW_SPEED)
        x1 == sh.x + Mul(cos, current_speed)
        y1 == sh.y + Mul(sin, current_speed)
        left == x1 - Fx(SHADOW_SIZE) < 0
        right == ~left /\ x1 + Fx(SHADOW_SIZE) > Fx(SCREEN_WIDTH)
        top == y1 - Fx(SHADOW_SIZE) < 0
        bottom == ~top /\ y1 + Fx(SHADOW_SIZE) > Fx(SCREEN_HEIGHT)
    IN  [sh EXCEPT
            !.change_direction_counter = counter,
            !.x = IF left THEN Fx(SHADOW_SIZE)
                  ELSE IF right THEN Fx(SCREEN_WIDTH - SHADOW_SIZE) ELSE x1,
            !.y = IF top THEN Fx(SHADOW_SIZE)
                  ELSE IF bottom THEN Fx(SCREEN_HEIGHT - SHADOW_SIZE) ELSE y1,
            \* math.pi - direction mirrors cos, -direction mirrors sin
            !.cos = IF left \/ right THEN -cos ELSE cos,
            !.sin = IF top \/ bottom THEN -sin ELSE sin]

----------------------------------------------------------------------------
(* Shadow Tag: Game *)

\* "if distance > self.player.light_radius: break" for a drawn point
SpawnAccepted(pt, p) ==
    LET dx == Fx(pt.x) - p.x
        dy == Fx(pt.y) - p.y
        r == ToFx(p.light_radius)
    IN  ~(Abs(dx) <= r /\ Abs(dy) <= r /\ dx * dx <= r * r - dy * dy)

\* Game.reset(); points and dirs are the accepted draws for the count shadows
STReset(g, count, points, dirs) ==
    [g EXCEPT
        !.player = Player(SCREEN_WIDTH \div 2, SCREEN_HEIGHT \div 2),
        !.shadows = [i \in 1..count |-> Shadow(points[i].x, points[i].y, dirs[i])],
        !.game_over = FALSE,
        !.win = FALSE,
        !.score = 0,
        !.light_warning_played = FALSE]

\* Game.__init__(): sound_enabled tells whether the sound files loaded;
\* hasattr(self, 'level') is False in the reset() it calls
STGameInit(sound, points, dirs) ==
    STReset([player |-> 0, shadows |-> <<>>, game_over |-> FALSE, win |-> FALSE,
             score |-> 0, level |-> 1, light_warning_played |-> FALSE,
             sound_enabled |-> sound],
            SHADOW_COUNT, points, dirs)

\* One event of the loop of handle_events().  st = [g, G, quit, reset, restart]:
\* the game, the globals, whether sys.exit() was called, whether reset() was
\* called and from which end state it was called last.
STEvent(st, e, points, dirs) ==
    IF st.quit THEN st
    ELSE IF e = "QUIT" THEN [st EXCEPT !.quit = TRUE]
    ELSE IF e = "K_SPACE" /\ (st.g.game_over \/ st.g.win)
    THEN LET G == IF st.g.win
                  THEN [SHADOW_COUNT |-> st.G.SHADOW_COUNT + SHADOW_COUNT_STEP,
                        LIGHT_SHRINK_RATE |-> FAdd(st.G.LIGHT_SHRINK_RATE, SHRINK_RATE_STEP)]
                  ELSE st.G
             g == IF st.g.win THEN [st.g EXCEPT !.level = @ + 1] ELSE st.g
         IN  [st EXCEPT !.g = STReset(g, G.SHADOW_COUNT, points, dirs),
                        !.G = G,
                        !.reset = TRUE,
                        !.restart = IF st.g.win THEN "win" ELSE "game_over"]
    ELSE IF e = "K_ESCAPE" THEN [st EXCEPT !.quit = TRUE]
    ELSE IF e = "K_s" THEN [st EXCEPT !.g.sound_enabled = ~@]
    ELSE st

RECURSIVE STEvents(_, _, _, _)
STEvents(st, evs, points, dirs) ==
    IF evs = <<>> THEN st
    ELSE STEvents(STEvent(st, Head(evs), points, dirs), Tail(evs), points, dirs)

\* "light_percent < 25" for the light meter (radius - MIN) / (INITIAL - MIN) * 100
LightLow(light_radius) ==
    (ToFx(light_radius) - Fx(MIN_LIGHT_RADIUS)) * 100
        < LIGHT_WARNING_PERCENT * Fx(INITIAL_LIGHT_RADIUS - MIN_LIGHT_RADIUS)

\* faulty variant, for sensitivity checks: the light must fall below the minimum
LightOutStrict(p) == FLess(p.light_radius, FromInt(MIN_LIGHT_RADIUS))

\* "if self.player.light_radius <= MIN_LIGHT_RADIUS"
LightOut(p) == ~FLess(FromInt(MIN_LIGHT_RADIUS), p.light_radius)

\* faulty variant, for sensitivity checks: a shadow in contact is tagged and
\* scored whether or not it is tagged already
STUpdateTagsAgain(g, G, down, thresholds, dirs) ==
    IF g.game_over \/ g.win THEN g
    ELSE
    LET p == PlayerUpdate(g.player, down, G.LIGHT_SHRINK_RATE)
        moved == [i \in 1..Len(g.shadows) |->
                     ShadowUpdate(g.shadows[i], p, thresholds[i], dirs[i])]
        hit == {i \in 1..Len(moved) : CollidesWith(p, moved[i])}
        shadows == [i \in 1..Len(moved) |->
                       IF i \in hit THEN [moved[i] EXCEPT !.tagged = TRUE] ELSE moved[i]]
        active_shadows == Cardinality({i \in 1..Len(shadows) : ~shadows[i].tagged})
    IN  [g EXCEPT
            !.player = p,
            !.shadows = shadows,
            !.score = @ + TAG_SCORE * Cardinality(hit),
            !.win = @ \/ active_shadows = 0,
            !.game_over = @ \/ LightOut(p),
            !.light_warning_played = LightLow(p.light_radius)]

\* Game.update(); thresholds and dirs are the random draws of each Shadow.update
STUpdate(g, G, down, thresholds, dirs) ==
    IF g.game_over \/ g.win THEN g
    ELSE
    LET p == PlayerUpdate(g.player, down, G.LIGHT_SHRINK_RATE)
        moved == [i \in 1..Len(g.shadows) |->
                     ShadowUpdate(g.shadows[i], p, thresholds[i], dirs[i])]
        hit == {i \in 1..Len(moved) : ~moved[i].tagged /\ CollidesWith(p, moved[i])}
        shadows == [i \in 1..Len(moved) |->
                       IF i \in hit THEN [moved[i] EXCEPT !.tagged = TRUE] ELSE moved[i]]
        active_shadows == Cardinality({i \in 1..Len(shadows) : ~shadows[i].tagged})
    IN  [g EXCEPT
            !.player = p,
            !.shadows = shadows,
            !.score = @ + TAG_SCORE * Cardinality(hit),
            !.win = @ \/ active_shadows = 0,
            !.game_over = @ \/ LightOut(p),
            !.light_warning_played = LightLow(p.light_radius)]

----------------------------------------------------------------------------
(* Shadow Tag: the environment and the main loop *)

\* the keys handle_events tells apart by what they do to the game: K_m only
\* pauses the music, see SndSTKeyDown
STKeys == {"K_SPACE", "K_ESCAPE", "K_s"}
STEventKinds == {"QUIT"} \cup STKeys

\* what the arrow keys are held at
ArrowKeys == {{}, {"K_RIGHT"}}

East == [cos |-> SCALE, sin |-> 0]

\* the draws of random.randint / random.uniform: one value each, which keeps
\* the run to the end of the light small
SpawnPoints == {[x |-> 600, y |-> 300]}
Directions == {East}
ChangeAfter == {61}

Draws(n, S) == [1..n -> S]

STInit ==
    /\ program = "ST"
    /\ pc = "events"
    /\ running = TRUE
    /\ globals = STGlobals
    /\ \E sound \in BOOLEAN,
          points \in Draws(SHADOW_COUNT,
                           {pt \in SpawnPoints :
                               SpawnAccepted(pt, Player(SCREEN_WIDTH \div 2, SCREEN_HEIGHT \div 2))}),
          dirs \in Draws(SHADOW_COUNT, Directions) :
          game = STGameInit(sound, points, dirs)
    /\ keys = {}
    /\ key_changes = 0
    /\ frame = 0
    /\ pressed = {}
    /\ past_action = FALSE
    /\ jump_log = NoJump
    /\ pushed = <<>>
    /\ popped = <<>>
    /\ hist = NoHist

\* the player presses or releases arrow keys between two frames
STKeyChange(down) ==
    /\ program = "ST" /\ running /\ pc = "events"
    /\ down # keys
    /\ key_changes < MaxKeyChanges
    /\ \/ frame < KeyWindow
       \/ key_changes = 0 /\ frame >= LateKeyStart /\ frame < LateKeyStart + KeyWindow
    /\ keys' = down
    /\ key_changes' = key_changes + 1
    /\ UNCHANGED <<program, pc, running, game, globals, frame, pressed, past_action,
                   jump_log, pushed, popped, hist>>

\* game.handle_events() with the events evs queued
STHandleEvents(evs, points, dirs) ==
    /\ program = "ST" /\ running /\ pc = "events"
    /\ LET st == STEvents([g |-> game, G |-> globals, quit |-> FALSE, reset |-> FALSE,
                           restart |-> "none"],
                          evs, points, dirs)
       IN  /\ st.g.level <= MaxLevel
           /\ running' = ~st.quit
           /\ pc' = IF st.quit THEN pc ELSE "update"
           /\ game' = st.g
           /\ globals' = st.G
           /\ frame' = IF st.reset THEN 0 ELSE frame
           /\ key_changes' = IF st.reset THEN 0 ELSE key_changes
           /\ hist' = [NoHist EXCEPT !.restart = st.restart]
    /\ UNCHANGED <<program, keys, pressed, past_action, jump_log, pushed, popped>>

\* game.update() with the random draws as given
STFrameUpdate(thresholds, dirs) ==
    /\ program = "ST" /\ running /\ pc = "update"
    /\ game' = STUpdate(game, globals, keys, thresholds, dirs)
    /\ pc' = "events"
    /\ frame' = IF game.game_over \/ game.win THEN frame ELSE frame + 1
    /\ hist' = NoHist
    /\ UNCHANGED <<program, running, globals, keys, key_changes, pressed, past_action,
                   jump_log, pushed, popped>>

\* the most shadows a level of the model has
MaxShadows == SHADOW_COUNT + SHADOW_COUNT_STEP * MaxLevel

STNext ==
    \/ \E down \in ArrowKeys : STKeyChange(down)
    \/ \E evs \in EventSeqs(STEventKinds) :
          \E points \in Draws(MaxShadows, SpawnPoints),
             dirs \in Draws(MaxShadows, Directions) :
             STHandleEvents(evs, points, dirs)
    \/ \E thresholds \in Draws(Len(game.shadows), ChangeAfter),
          dirs \in Draws(Len(game.shadows), Directions) :
          STFrameUpdate(thresholds, dirs)

SpecST == STInit /\ [][STNext]_vars

----------------------------------------------------------------------------
(* Shadow Tag with the shadows of the first run spread out, so that they are  *)
(* tagged one after the other; the runs are cut after MaxTagFrames ticks      *)

\* draws of reset() for the first run: two points on the player's row
TagSpawnPoints == {[x |-> 600, y |-> 300], [x |-> 700, y |-> 300]}

TagInit ==
    /\ program = "ST"
    /\ pc = "events"
    /\ running = TRUE
    /\ globals = STGlobals
    /\ \E sound \in BOOLEAN,
          points \in Draws(SHADOW_COUNT,
                           {pt \in TagSpawnPoints :
                               SpawnAccepted(pt, Player(SCREEN_WIDTH \div 2, SCREEN_HEIGHT \div 2))}),
          dirs \in Draws(SHADOW_COUNT, Directions) :
          game = STGameInit(sound, points, dirs)
    /\ keys = {}
    /\ key_changes = 0
    /\ frame = 0
    /\ pressed = {}
    /\ past_action = FALSE
    /\ jump_log = NoJump
    /\ pushed = <<>>
    /\ popped = <<>>
    /\ hist = NoHist

TagNext ==
    \/ \E down \in ArrowKeys : STKeyChange(down)
    \/ \E evs \in EventSeqs(STEventKinds) :
          \E points \in Draws(MaxShadows, SpawnPoints),
             dirs \in Draws(MaxShadows, Directions) :
             STHandleEvents(evs, points, dirs)
    \/ /\ frame < MaxTagFrames
       /\ \E thresholds \in Draws(Len(game.shadows), ChangeAfter),
             dirs \in Draws(Len(game.shadows), Directions) :
             STFrameUpdate(thresholds, dirs)

SpecTag == TagInit /\ [][TagNext]_vars

----------------------------------------------------------------------------
(* Shadow Tag with every arrow key and a shadow in a corner of the screen,   *)
(* so that the player and the shadows reach every edge; the runs are cut     *)
(* after MaxWallFrames ticks                                                 *)

\* what the arrow keys are held at: each key alone, and two at once
WallKeys == {{}, {"K_LEFT"}, {"K_RIGHT"}, {"K_UP"}, {"K_DOWN"},
             {"K_LEFT", "K_UP"}, {"K_RIGHT", "K_DOWN"}}

\* draws of reset() and of Shadow.__init__ for the first shadow: near the
\* top left corner heading up and left, near the bottom right corner heading
\* down and right (unit vectors (-0.6, -0.8) and (0.6, 0.8))
WallCorners ==
    {[pt |-> [x |-> 30, y |-> 30],
      dir |-> [cos |-> -((3 * SCALE) \div 5), sin |-> -((4 * SCALE) \div 5)]],
     [pt |-> [x |-> 770, y |-> 570],
      dir |-> [cos |-> (3 * SCALE) \div 5, sin |-> (4 * SCALE) \div 5]]}

WallInit ==
    /\ program = "ST"
    /\ pc = "events"
    /\ running = TRUE
    /\ globals = STGlobals
    /\ \E sound \in BOOLEAN, corner \in WallCorners,
          points \in Draws(SHADOW_COUNT, SpawnPoints),
          dirs \in Draws(SHADOW_COUNT, Directions) :
          /\ SpawnAccepted(corner.pt, Player(SCREEN_WIDTH \div 2, SCREEN_HEIGHT \div 2))
          /\ game = STGameInit(sound, [points EXCEPT ![1] = corner.pt],
                               [dirs EXCEPT ![1] = corner.dir])
    /\ keys = {}
    /\ key_changes = 0
    /\ frame = 0
    /\ pressed = {}
    /\ past_action = FALSE
    /\ jump_log = NoJump
    /\ pushed = <<>>
    /\ popped = <<>>
    /\ hist = NoHist

WallNext ==
    \/ \E down \in WallKeys : STKeyChange(down)
    \/ \E evs \in EventSeqs(STEventKinds) :
          \E points \in Draws(MaxShadows, SpawnPoints),
             dirs \in Draws(MaxShadows, Directions) :
             STHandleEvents(evs, points, dirs)
    \/ /\ frame < MaxWallFrames
       /\ \E thresholds \in Draws(Len(game.shadows), ChangeAfter),
             dirs \in Draws(Len(game.shadows), Directions) :
             STFrameUpdate(thresholds, dirs)

SpecWalls == WallInit /\ [][WallNext]_vars

----------------------------------------------------------------------------
(* Either program *)

Init == TRInit \/ STInit

Next ==
    \/ program = "TR" /\ TRNext
    \/ program = "ST" /\ STNext

Spec == Init /\ [][Next]_vars

----------------------------------------------------------------------------
(* The sound calls of both games.  A handler is kept as the list of its      *)
(* statements that touch a sound handle, the music or a flag of the game,    *)
(* in the order of the code: Call is a method call, Set an assignment, Try a *)
(* "try: ... except: pass" block.  A run is the state those statements act   *)
(* on: the kind of the sound handles, whether the music file was loaded, the *)
(* state of the music and of the slow-motion loop, the flags of the game     *)
(* (vars), and whether an exception is on its way up (raised).               *)

Call(obj, method) == [op |-> "call", a |-> obj, b |-> method]
Set(field, value) == [op |-> "set", a |-> field, b |-> value]
Try(body) == [op |-> "try", a |-> body, b |-> ""]

\* whether the call raises: music.play() without a loaded file is a
\* pygame.error, a DummySound has play(self) and stop(self) only, so any other
\* call of it is a TypeError, and Sound("assets/move.wav") fails where the
\* sound files are missing
CallRaises(run, obj, method) ==
    IF obj = "music" THEN method = "play(-1)" /\ ~run.music_loaded
    ELSE IF obj = "move_sound" THEN run.handles = "dummy"
    ELSE run.handles = "dummy" /\ method \notin {"play()", "stop()"}

\* what a call that returns does to the mixer
CallEffect(run, obj, method) ==
    IF obj = "music"
    THEN [run EXCEPT !.music =
             IF method = "play(-1)" THEN "playing"
             ELSE IF method = "stop()" THEN "stopped"
             ELSE IF method = "pause()" /\ @ = "playing" THEN "paused"
             ELSE IF method = "unpause()" /\ @ = "paused" THEN "playing"
             ELSE @]
    ELSE IF obj = "slow_mo_sound" /\ run.handles = "real"
    THEN [run EXCEPT !.slow_mo = (method = "play(-1)")]
    ELSE run

\* the statements run in order; an exception skips the rest of its block and
\* ends at the except of the nearest Try around it
RECURSIVE Exec(_, _)
Exec(stmts, run) ==
    IF Len(stmts) = 0 \/ run.raised THEN run
    ELSE LET s == Head(stmts)
             after ==
                 IF s.op = "set" THEN [run EXCEPT !.vars[s.a] = s.b]
                 ELSE IF s.op = "try" THEN [Exec(s.a, run) EXCEPT !.raised = FALSE]
                 ELSE IF CallRaises(run, s.a, s.b) THEN [run EXCEPT !.raised = TRUE]
                 ELSE CallEffect(run, s.a, s.b)
         IN  Exec(Tail(stmts), after)

\* pygame.mixer.music.get_busy(), False while paused (pygame 2.0.1 and later)
GetBusy(run) == run.music = "playing"

\* "try: pygame.mixer.music.play(-1); pygame.mixer.music.set_volume(0.5)"
StartMusic == Try(<<Call("music", "play(-1)"), Call("music", "set_volume(0.5)")>>)

\* Time Runners, Game.reset()
SndTRReset ==
    <<Set("game_over", FALSE), Set("slow_mo_active", FALSE),
      Try(<<Call("slow_mo_sound", "stop()")>>)>>

\* Time Runners, Game.__init__()
SndTRGameInit ==
    SndTRReset \o <<Set("show_intro", TRUE), Set("intro_page", 0), StartMusic>>

\* Time Runners, handle_events(): one KEYDOWN event
SndTRKeyDown(run, key) ==
    IF run.vars.show_intro
    THEN <<Set("intro_page", run.vars.intro_page + 1)>>
         \o (IF run.vars.intro_page + 1 >= INTRO_PAGES
             THEN <<Set("show_intro", FALSE)>> ELSE <<>>)
    ELSE IF key = "K_SPACE" /\ run.vars.game_over THEN SndTRReset
    ELSE <<>>

\* Time Runners, handle_events() after the events: Runner.jump() of the present
\* and of the past runner, where the key sample and is_jumping let it act
SndTRSample(run, present_jumps, past_jumps) ==
    IF run.vars.show_intro THEN <<>>
    ELSE (IF present_jumps THEN <<Call("jump_sound", "play()")>> ELSE <<>>)
         \o (IF past_jumps THEN <<Call("jump_sound", "play()")>> ELSE <<>>)

\* a collision found by update(), in either loop
SndTRCollision ==
    <<Set("game_over", TRUE),
      Try(<<Call("game_over_sound", "play()"), Call("music", "stop()")>>)>>

\* faulty variant, for sensitivity checks: the slow-motion loop is started
\* outside a try block
SndTRUpdateUnguarded(run, near, hits) ==
    IF run.vars.game_over \/ run.vars.show_intro THEN <<>>
    ELSE <<Set("slow_mo_active", FALSE)>>
         \o (IF near
             THEN <<Set("slow_mo_active", TRUE), Call("slow_mo_sound", "play(-1)")>>
             ELSE <<Try(<<Call("slow_mo_sound", "stop()")>>)>>)
         \o (IF hits >= 1 THEN SndTRCollision ELSE <<>>)
         \o (IF hits >= 2 THEN SndTRCollision ELSE <<>>)

\* Time Runners, update(): check_slow_motion() with an obstacle near or not,
\* then the collisions (hits of them)
SndTRUpdate(run, near, hits) ==
    IF run.vars.game_over \/ run.vars.show_intro THEN <<>>
    ELSE <<Set("slow_mo_active", FALSE)>>
         \o (IF near
             THEN <<Set("slow_mo_active", TRUE),
                    Try(<<Call("slow_mo_sound", "play(-1)")>>)>>
             ELSE <<Try(<<Call("slow_mo_sound", "stop()")>>)>>)
         \o (IF hits >= 1 THEN SndTRCollision ELSE <<>>)
         \o (IF hits >= 2 THEN SndTRCollision ELSE <<>>)

\* Shadow Tag, Game.reset()
SndSTReset(run) ==
    <<Set("game_over", FALSE), Set("win", FALSE), Set("light_warning_played", FALSE)>>
    \o (IF run.vars.sound_enabled /\ ~GetBusy(run) THEN <<StartMusic>> ELSE <<>>)

\* Shadow Tag, Game.__init__() after the sounds were loaded or replaced
SndSTGameInit(run) ==
    SndSTReset(run) \o (IF run.vars.sound_enabled THEN <<StartMusic>> ELSE <<>>)

\* Shadow Tag, handle_events(): one KEYDOWN event other than Escape
SndSTKeyDown(run, key) ==
    IF key = "K_SPACE" /\ (run.vars.game_over \/ run.vars.win) THEN SndSTReset(run)
    ELSE IF key = "K_m"
    THEN (IF run.vars.sound_enabled
          THEN (IF GetBusy(run) THEN <<Call("music", "pause()")>>
                ELSE <<Call("music", "unpause()")>>)
          ELSE <<>>)
    ELSE IF key = "K_s" THEN <<Set("sound_enabled", ~run.vars.sound_enabled)>>
    ELSE <<>>

\* Shadow Tag, update(): the player's movement sound is due or not, a shadow is
\* tagged or not, none is left or some, the light is out or not, low or not
SndSTUpdate(run, step_sound, tagged, cleared, out, low) ==
    IF run.vars.game_over \/ run.vars.win THEN <<>>
    ELSE (IF step_sound
          THEN <<Try(<<Call("move_sound", "Sound(move.wav)"),
                       Call("channel", "play()")>>)>>
          ELSE <<>>)
         \o (IF tagged THEN <<Call("tag_sound", "play()")>> ELSE <<>>)
         \o (IF cleared
             THEN <<Set("win", TRUE), Call("level_complete_sound", "play()")>>
             ELSE <<>>)
         \o (IF out
             THEN <<Set("game_over", TRUE), Call("game_over_sound", "play()"),
                    Call("music", "stop()")>>
             ELSE <<>>)
         \o (IF low /\ ~run.vars.light_warning_played
             THEN <<Call("light_low_sound", "play()"),
                    Set("light_warning_played", TRUE)>>
             ELSE IF ~low THEN <<Set("light_warning_played", FALSE)>>
             ELSE <<>>)

\* a run before Game.__init__(): the handles as the loading left them
SndRun(handles, music_loaded, flags) ==
    [handles |-> handles, music_loaded |-> music_loaded, music |-> "stopped",
     slow_mo |-> FALSE, vars |-> flags, raised |-> FALSE]

SndTRFlags == [show_intro |-> TRUE, intro_page |-> 0, game_over |-> FALSE,
               slow_mo_active |-> FALSE]

SndSTFlags(sound_enabled) ==
    [game_over |-> FALSE, win |-> FALSE, light_warning_played |-> FALSE,
     sound_enabled |-> sound_enabled]

\* Two runs of one game side by side, fed the same keys and the same game
\* events: "dummy", where loading failed and the handles are DummySound (in
\* Time Runners the music is loaded first and may be there; in Shadow Tag it is
\* loaded last and is not), and "sound", where everything loaded.
SndInit ==
    /\ program = "SND"
    /\ pc = "events"
    /\ running = TRUE
    /\ \/ \E music_loaded \in BOOLEAN :
             game = [title |-> "TR",
                     dummy |-> Exec(SndTRGameInit,
                                    SndRun("dummy", music_loaded, SndTRFlags)),
                     sound |-> Exec(SndTRGameInit, SndRun("real", TRUE, SndTRFlags))]
       \/ game = [title |-> "ST",
                  dummy |-> LET run == SndRun("dummy", FALSE, SndSTFlags(FALSE))
                            IN  Exec(SndSTGameInit(run), run),
                  sound |-> LET run == SndRun("real", TRUE, SndSTFlags(TRUE))
                            IN  Exec(SndSTGameInit(run), run)]
    /\ globals = NoGlobals
    /\ keys = {}
    /\ key_changes = 0
    /\ frame = 0
    /\ pressed = {}
    /\ past_action = FALSE
    /\ jump_log = NoJump
    /\ pushed = <<>>
    /\ popped = <<>>
    /\ hist = NoHist

\* a frame's handler ran in both runs; an exception that no try block caught
\* ends the program
SndStep(dummy, sound) ==
    /\ game' = [game EXCEPT !.dummy = dummy, !.sound = sound]
    /\ running' = (~dummy.raised /\ ~sound.raised)
    /\ pc' = IF pc = "events" THEN "update" ELSE "events"
    /\ UNCHANGED <<program, globals, keys, key_changes, frame, pressed, past_action,
                   jump_log, pushed, popped, hist>>

\* the window is closed, or Escape is pressed in Shadow Tag
SndQuit ==
    /\ program = "SND" /\ running /\ pc = "events"
    /\ running' = FALSE
    /\ UNCHANGED <<program, pc, game, globals, keys, key_changes, frame, pressed,
                   past_action, jump_log, pushed, popped, hist>>

SndTRHandle(run, evs, present_jumps, past_jumps) ==
    LET keyed == IF Len(evs) = 0 THEN run ELSE Exec(SndTRKeyDown(run, evs[1]), run)
    IN  Exec(SndTRSample(keyed, present_jumps, past_jumps), keyed)

\* Time Runners, game.handle_events()
SndTRHandleEvents(evs, present_jumps, past_jumps) ==
    /\ program = "SND" /\ running /\ pc = "events" /\ game.title = "TR"
    /\ SndStep(SndTRHandle(game.dummy, evs, present_jumps, past_jumps),
               SndTRHandle(game.sound, evs, present_jumps, past_jumps))

\* Time Runners, game.update()
SndTRFrameUpdate(near, hits) ==
    /\ program = "SND" /\ running /\ pc = "update" /\ game.title = "TR"
    /\ SndStep(Exec(SndTRUpdate(game.dummy, near, hits), game.dummy),
               Exec(SndTRUpdate(game.sound, near, hits), game.sound))

\* Shadow Tag, game.handle_events()
SndSTHandleEvents(evs) ==
    /\ program = "SND" /\ running /\ pc = "events" /\ game.title = "ST"
    /\ LET Handle(run) == IF Len(evs) = 0 THEN run
                          ELSE Exec(SndSTKeyDown(run, evs[1]), run)
       IN  SndStep(Handle(game.dummy), Handle(game.sound))

\* Shadow Tag, game.update()
SndSTFrameUpdate(step_sound, tagged, cleared, out, low) ==
    /\ program = "SND" /\ running /\ pc = "update" /\ game.title = "ST"
    /\ LET Update(run) == Exec(SndSTUpdate(run, step_sound, tagged, cleared, out, low), run)
       IN  SndStep(Update(game.dummy), Update(game.sound))

SndKeys == {"K_SPACE", "K_m", "K_s", "K_UP"}

SndNext ==
    \/ SndQuit
    \/ \E evs \in {<<>>} \cup {<<k>> : k \in SndKeys}, present_jumps, past_jumps \in BOOLEAN :
          SndTRHandleEvents(evs, present_jumps, past_jumps)
    \/ \E near \in BOOLEAN, hits \in 0..2 : SndTRFrameUpdate(near, hits)
    \/ \E evs \in {<<>>} \cup {<<k>> : k \in SndKeys} : SndSTHandleEvents(evs)
    \/ \E step_sound, tagged, cleared, out, low \in BOOLEAN :
          SndSTFrameUpdate(step_sound, tagged, cleared, out, low)

SpecSnd == SndInit /\ [][SndNext]_vars

----------------------------------------------------------------------------
(* Claims about the replay buffer *)

\* a frame on which Time Runners sampled its input: handle_events() ran past
\* its "if self.show_intro: return"
SampledStep ==
    /\ program = "TR" /\ pc = "events" /\ pc' = "update" /\ ~game'.show_intro

\* a call of Time Runners' update() that did not return at once
PlayingUpdate ==
    /\ program = "TR" /\ pc = "update" /\ pc' = "events"
    /\ ~game.show_intro /\ ~game.game_over

\* C1: the delayed action read on sampled frame k (k = frame - 1, counted from 0
\* since the last reset) is the sample pushed on frame k - DELAY_FRAMES when
\* k >= DELAY_FRAMES, and the pre-fill value False when k < DELAY_FRAMES.
C1_ReplayDelay ==
    (program = "TR" /\ frame >= 1) =>
        past_action = IF frame - 1 >= DELAY_FRAMES
                      THEN (frame - 1 - DELAY_FRAMES) \in pressed
                      ELSE FALSE

\* a pressed key came back as the delayed action, DELAY_FRAMES frames later
C1_Witness ==
    /\ program = "TR" /\ frame - 1 >= DELAY_FRAMES
    /\ past_action /\ (frame - 1 - DELAY_FRAMES) \in pressed

\* C2: a buffer of 3 entries pre-filled with False, pushed True, False, True, True
\* by the game's push-then-read step, gives the delayed outputs False, False,
\* True, False and ends as <<False, True, True>>.
C2_Scenario ==
    (program = "BUF" /\ game.maxlen = 3 /\ pushed = <<TRUE, FALSE, TRUE, TRUE>>) =>
        /\ popped = <<FALSE, FALSE, TRUE, FALSE>>
        /\ game.action_history = <<FALSE, TRUE, TRUE>>

C2_Witness ==
    /\ program = "BUF" /\ game.maxlen = 3
    /\ pushed = <<TRUE, FALSE, TRUE, TRUE>>
    /\ popped = <<FALSE, FALSE, TRUE, FALSE>>

\* C3 as stated: action_history holds exactly 120 elements in every state.
C3_Original ==
    program = "TR" => Len(game.action_history) = 120

\* C3 amended: action_history holds exactly DELAY_FRAMES + 1 = 121 elements in
\* every state, after reset and after every push.
C3_Amended ==
    program = "TR" => Len(game.action_history) = DELAY_FRAMES + 1

\* the buffer after more pushes than it has entries
C3_Witness ==
    /\ program = "TR" /\ frame > DELAY_FRAMES + 1
    /\ Len(game.action_history) = DELAY_FRAMES + 1

\* C4: a push never changes the length of the buffer, and on every sampled frame
\* the action offered to the past runner is the front entry of the buffer as it
\* stands after the push: past_action is that entry, and the past runner is in a
\* jump afterwards exactly if it was before or that entry is True.
C4_OldestIsDelayedAction ==
    [][SampledStep =>
        LET restarted == game.game_over /\ ~game'.game_over
            was_jumping == ~restarted /\ game.past_runner.is_jumping
        IN  /\ Len(game'.action_history) = Len(game.action_history)
            /\ past_action' = game'.action_history[1]
            /\ game'.past_runner.is_jumping = (was_jumping \/ game'.action_history[1])
            /\ (game'.action_history[1] /\ ~was_jumping)
                   => game'.past_runner.vel_y = Fx(JUMP_STRENGTH)]_vars

\* the front entry was True and started a jump of the past runner
C4_Witness ==
    /\ program = "TR" /\ pc = "update" /\ game.action_history[1]
    /\ game.past_runner.is_jumping /\ game.past_runner.vel_y = Fx(JUMP_STRENGTH)
    /\ game.past_runner.y = Fx(PastGround - RUNNER_HEIGHT)

----------------------------------------------------------------------------
(* Claims about the runners *)

\* C5 as stated: 15 updates at time factor 1 after a jump from the ground, vel_y
\* is non-negative and y is the pre-jump height.
C5_Original ==
    (program = "TR" /\ jump_log.active /\ jump_log.tf1 /\ jump_log.n = 15) =>
        /\ game.present_runner.vel_y >= 0
        /\ game.present_runner.y = jump_log.y0

\* C5 amended: 15 updates at time factor 1 after a jump from the ground the
\* runner is at the top of its jump, vel_y = 0 and y is 105 pixels above the
\* pre-jump height; after 30 updates vel_y is non-negative (0) and y is the
\* pre-jump height again.
C5_Amended ==
    /\ (program = "TR" /\ jump_log.active /\ jump_log.tf1 /\ jump_log.n = 15) =>
          /\ game.present_runner.vel_y = 0
          /\ game.present_runner.y = jump_log.y0 - Fx(105)
    /\ (program = "TR" /\ jump_log.active /\ jump_log.tf1 /\ jump_log.n = 30) =>
          /\ game.present_runner.vel_y = 0
          /\ ~game.present_runner.is_jumping
          /\ game.present_runner.y = jump_log.y0

\* a jump of the present runner, 30 updates at time factor 1 later
C5_Witness ==
    /\ program = "TR" /\ jump_log.active /\ jump_log.tf1 /\ jump_log.n = 30
    /\ game.present_runner.y = jump_log.y0

\* Runner.update(ground_y, tf) took r0 to r1 as C6 says
GroundResolved(r0, r1, ground_y, tf) ==
    /\ r1.y + Fx(RUNNER_HEIGHT) <= Fx(ground_y)
    /\ (r0.y + Mul(r0.vel_y + GRAVITY * tf, tf) + Fx(RUNNER_HEIGHT) > Fx(ground_y)) =>
          /\ r1.y = Fx(ground_y) - Fx(RUNNER_HEIGHT)
          /\ r1.vel_y = 0
          /\ ~r1.is_jumping

\* C6: after every Runner.update(ground_y, time_factor), from any y, vel_y and
\* time factor, the runner's bottom edge is not below the ground line, and when
\* the un-clamped new position would be below it the update leaves
\* y = ground_y - height, vel_y = 0 and is_jumping = False.
C6_GroundCollision ==
    [][(program = "RUN" /\ frame' = frame + 1) =>
          GroundResolved(game.runner, game'.runner, game.ground_y,
                         game'.time_factor)]_vars

\* an update in slow motion moved the runner below the ground line and the
\* ground check put it back on the line
C6_Witness ==
    /\ program = "RUN" /\ frame > 0 /\ game.below
    /\ game.time_factor # SCALE
    /\ game.runner.y = Fx(game.ground_y - RUNNER_HEIGHT)
    /\ game.runner.vel_y = 0 /\ ~game.runner.is_jumping

----------------------------------------------------------------------------
(* Claims about collisions *)

\* the boxes of C8 as stated: 20x40 at (x, y), and the obstacle's body extended
\* SPIKE_HEIGHT pixels upward, at the exact coordinates
ExactBoxesOverlap(r, o) ==
    /\ r.x < o.x + Fx(o.width)
    /\ r.y < o.y + Fx(o.height)
    /\ r.x + Fx(RUNNER_WIDTH) > o.x
    /\ r.y + Fx(RUNNER_HEIGHT) > o.y - Fx(SPIKE_HEIGHT)

\* the same boxes at whole pixels: every coordinate truncated toward zero
PixelBoxesOverlap(r, o) ==
    /\ Trunc(r.x) < Trunc(o.x) + o.width
    /\ Trunc(r.y) < Trunc(o.y) + o.height
    /\ Trunc(r.x) + RUNNER_WIDTH > Trunc(o.x)
    /\ Trunc(r.y) + RUNNER_HEIGHT > Trunc(o.y) - SPIKE_HEIGHT

\* C8 as stated: a collision is reported (the game is over) exactly when the
\* exact boxes of a runner and an obstacle of its own timeline overlap.
C8_Original ==
    program = "TR" =>
        (game.game_over <=>
            \/ \E i \in 1..Len(game.present_obstacles) :
                  ExactBoxesOverlap(game.present_runner, game.present_obstacles[i])
            \/ \E i \in 1..Len(game.past_obstacles) :
                  ExactBoxesOverlap(game.past_runner, game.past_obstacles[i]))

\* what Game.update reports instead: a collision exactly when the whole-pixel
\* boxes of a runner and an obstacle of its own timeline overlap (pygame.Rect
\* truncates the float coordinates); obstacles of the other timeline are not
\* tested.
ReportedIsPixelOverlap ==
    program = "TR" =>
        (game.game_over <=>
            \/ \E i \in 1..Len(game.present_obstacles) :
                  PixelBoxesOverlap(game.present_runner, game.present_obstacles[i])
            \/ \E i \in 1..Len(game.past_obstacles) :
                  PixelBoxesOverlap(game.past_runner, game.past_obstacles[i]))

\* a reported collision: the past runner jumped and the present runner ran
\* into the obstacle
C8_Witness ==
    /\ program = "TR" /\ game.game_over /\ game.past_runner.is_jumping
    /\ \E i \in 1..Len(game.present_obstacles) :
          PixelBoxesOverlap(game.present_runner, game.present_obstacles[i])

----------------------------------------------------------------------------
(* Claims about the frame loop's states *)

\* C9 as stated: in Intro a single key-down event moves the game to Playing.
C9_Original ==
    [][(program = "TR" /\ game.show_intro
        /\ \E k \in TRKeys : TRHandleEvents(<<k>>, FALSE))
       => ~game'.show_intro]_vars

\* C9 amended: in Intro every key-down event of any key turns one of the three
\* story pages (intro_page grows by one) and the game moves to Playing when the
\* third page is turned; without a key-down event it stays in Intro.
C9_Amended ==
    [][(program = "TR" /\ game.show_intro) =>
        /\ \A k \in TRKeys :
              TRHandleEvents(<<k>>, FALSE) =>
                  /\ game'.intro_page = game.intro_page + 1
                  /\ game'.show_intro = (game.intro_page + 1 < 3)
        /\ (game'.intro_page = game.intro_page) => game'.show_intro]_vars

\* Playing was reached from the intro
C9_Witness ==
    /\ program = "TR" /\ ~game.show_intro /\ game.intro_page = 3 /\ frame = 1

\* a call of Shadow Tag's update() that did not return at once
STPlayingUpdate ==
    /\ program = "ST" /\ pc = "update" /\ pc' = "events"
    /\ ~game.game_over /\ ~game.win

----------------------------------------------------------------------------
(* Claims about the light *)

\* C7: in Shadow Tag MIN_LIGHT_RADIUS <= light_radius <= INITIAL_LIGHT_RADIUS in
\* every state, whatever the ticks, keys, restarts and level.
C7_LightBounds ==
    program = "ST" =>
        /\ ~FLess(game.player.light_radius, FromInt(MIN_LIGHT_RADIUS))
        /\ ~FLess(FromInt(INITIAL_LIGHT_RADIUS), game.player.light_radius)

\* the floor cut a step short: the light is at its minimum after more ticks
\* than whole shrink rates fit between the two ends
C7_Witness ==
    /\ program = "ST" /\ game.level = 3
    /\ game.player.light_radius = FromInt(MIN_LIGHT_RADIUS)
    /\ frame * ToFx(globals.LIGHT_SHRINK_RATE) > Fx(INITIAL_LIGHT_RADIUS - MIN_LIGHT_RADIUS)

----------------------------------------------------------------------------
(* Claims about restarting *)

TREnded == program = "TR" /\ ~game.show_intro /\ game.game_over
TRPlaying == program = "TR" /\ ~game.show_intro /\ ~game.game_over
STEnded == program = "ST" /\ (game.game_over \/ game.win)
STPlaying == program = "ST" /\ ~game.game_over /\ ~game.win

\* a K_SPACE key-down is among the events
HasSpace(evs) == \E i \in 1..Len(evs) : evs[i] = "K_SPACE"

\* C11: in GameOver (and Win, in Shadow Tag) a SPACE key-down returns the game
\* to Playing with game_over and win both False; GameOver/Win is left only by
\* handle_events() and by no events without a SPACE key-down (no other key, no
\* update()); and SPACE pressed while Playing does what a frame without events
\* does.
C11_RestartKeyOnly ==
    [][/\ TREnded =>
            /\ ~game'.game_over =>
                   /\ pc = "events"
                   /\ \A evs \in EventSeqs(TREventKinds), jump_pressed \in BOOLEAN :
                          TRHandleEvents(evs, jump_pressed) => HasSpace(evs)
            /\ \A jump_pressed \in BOOLEAN :
                   TRHandleEvents(<<"K_SPACE">>, jump_pressed) =>
                       running' /\ ~game'.show_intro /\ ~game'.game_over
       /\ TRPlaying =>
            \A jump_pressed \in BOOLEAN :
                TRHandleEvents(<<"K_SPACE">>, jump_pressed) =>
                    TRHandleEvents(<<>>, jump_pressed)
       /\ STEnded =>
            /\ ~(game'.game_over \/ game'.win) =>
                   /\ pc = "events"
                   /\ \A evs \in EventSeqs(STEventKinds),
                         points \in Draws(MaxShadows, SpawnPoints),
                         dirs \in Draws(MaxShadows, Directions) :
                          STHandleEvents(evs, points, dirs) => HasSpace(evs)
            /\ \A points \in Draws(MaxShadows, SpawnPoints),
                  dirs \in Draws(MaxShadows, Directions) :
                   STHandleEvents(<<"K_SPACE">>, points, dirs) =>
                       running' /\ ~game'.game_over /\ ~game'.win
       /\ STPlaying =>
            \A points \in Draws(MaxShadows, SpawnPoints),
                  dirs \in Draws(MaxShadows, Directions) :
                STHandleEvents(<<"K_SPACE">>, points, dirs) =>
                    STHandleEvents(<<>>, points, dirs)]_vars

\* Time Runners is back in Playing after a SPACE key-down in GameOver
C11_Witness ==
    /\ program = "TR" /\ hist.restart = "game_over"
    /\ running /\ ~game.show_intro /\ ~game.game_over /\ game.score = 0

\* the entities and game variables of a Time Runners run
TRRunState(g) ==
    [present_runner |-> g.present_runner, past_runner |-> g.past_runner,
     score |-> g.score, game_over |-> g.game_over,
     slow_mo_active |-> g.slow_mo_active, time_factor |-> g.time_factor,
     present_obstacles |-> g.present_obstacles, past_obstacles |-> g.past_obstacles,
     action_history |-> g.action_history, obstacle_timer |-> g.obstacle_timer,
     obstacle_spawn_delay |-> g.obstacle_spawn_delay,
     current_milestone |-> g.current_milestone, milestone_timer |-> g.milestone_timer]

\* Time Runners after a restart is as at first launch: the state Game.__init__
\* left, or, when the handle_events() that restarted went on to sample the jump
\* key, that state after the sample
TRRestored(g, sampled, jump_pressed) ==
    TRRunState(g) = IF sampled
                    THEN TRRunState(TRSample(TRGameInit, jump_pressed).g)
                    ELSE TRRunState(TRGameInit)

\* the state of a Shadow Tag run is as at first launch: player, light radius,
\* score, end flags, and count fresh shadows
STRestored(g, count) ==
    /\ g.player = Player(SCREEN_WIDTH \div 2, SCREEN_HEIGHT \div 2)
    /\ g.score = 0 /\ ~g.game_over /\ ~g.win /\ ~g.light_warning_played
    /\ Len(g.shadows) = count
    /\ \A i \in 1..Len(g.shadows) :
          /\ ~g.shadows[i].tagged
          /\ g.shadows[i].fade_out = FADE_START
          /\ g.shadows[i].change_direction_counter = 0

----------------------------------------------------------------------------
(* Claims about the order of a tick *)

\* C13: a Playing tick of Time Runners runs in this order: the present runner's
\* jump from this tick's sample, the push of the sample and the delayed action
\* for the past runner (all in handle_events, before anything moves); then
\* update() advances both runners, tests collisions on the moved positions, and
\* updates score and milestones last.  So a jump requested on tick k has moved
\* the runner after tick k, and the tick that detects a collision adds nothing
\* to the score.
C13_TickOrder ==
    [][/\ (SampledStep /\ ~game.game_over) =>
            LET sample == (frame' - 1) \in pressed'
            IN  /\ game'.action_history[HistoryLen] = sample
                /\ game'.present_runner.y = game.present_runner.y
                /\ game'.past_runner.y = game.past_runner.y
                /\ game'.score = game.score
                /\ (sample /\ ~game.present_runner.is_jumping) =>
                       /\ game'.present_runner.is_jumping
                       /\ game'.present_runner.vel_y = Fx(JUMP_STRENGTH)
       /\ PlayingUpdate =>
            LET tf == game'.time_factor
                due == {m \in Milestones :
                           /\ Trunc(game'.score) >= m
                           /\ \/ game.current_milestone = NoMilestone
                              \/ m > game.current_milestone}
            IN  /\ game'.present_runner
                      = RunnerUpdate(game.present_runner, PresentGround, tf)
                /\ game'.past_runner = RunnerUpdate(game.past_runner, PastGround, tf)
                /\ (jump_log.active /\ jump_log.n = 0) =>
                       game'.present_runner.y < jump_log.y0
                /\ game'.game_over =
                      (\/ Collides(game'.present_runner, game'.present_obstacles)
                       \/ Collides(game'.past_runner, game'.past_obstacles))
                /\ game'.score = IF game'.game_over THEN game.score
                                 ELSE game.score + tf
                /\ game'.current_milestone =
                      IF ~game'.game_over /\ due # {} THEN SetMin(due)
                      ELSE game.current_milestone]_vars

\* a run with a jump and a milestone, ended by a collision
C13_Witness ==
    /\ program = "TR" /\ game.game_over /\ game.current_milestone = 100
    /\ jump_log.active /\ jump_log.n >= 1

----------------------------------------------------------------------------
(* Claims about the end of a run *)

\* ceil((INITIAL_LIGHT_RADIUS - MIN_LIGHT_RADIUS) / rate), the rate read to the
\* nearest 1 / SCALE (0.05, 0.06, 0.07, ... are whole multiples of it)
LightTicks(rate) ==
    (Fx(INITIAL_LIGHT_RADIUS - MIN_LIGHT_RADIUS) + ToFx(rate) - 1) \div ToFx(rate)

\* what a Playing tick of Shadow Tag does to the light: it becomes
\* max(MIN_LIGHT_RADIUS, light_radius - LIGHT_SHRINK_RATE), does not grow, and
\* the tick that brings it to the floor sets game_over
LightStep ==
    STPlayingUpdate =>
        /\ game'.player.light_radius =
               Shrink(game.player.light_radius, globals.LIGHT_SHRINK_RATE)
        /\ ~FLess(game.player.light_radius, game'.player.light_radius)
        /\ game'.player.light_radius = FromInt(MIN_LIGHT_RADIUS) => game'.game_over

\* C14: in Shadow Tag each Playing tick makes light_radius
\* max(MIN_LIGHT_RADIUS, light_radius - LIGHT_SHRINK_RATE), the light never grows
\* within a run, the tick that brings it to the floor ends the game, and so a run
\* is over (GameOver or Win) after at most
\* ceil((150 - 30) / LIGHT_SHRINK_RATE) Playing ticks: none is still Playing
\* after that many.
C14_Original ==
    [][/\ LightStep
       /\ STPlaying' => frame' < LightTicks(globals'.LIGHT_SHRINK_RATE)]_vars

\* the same with one tick more: the subtractions are rounded, and on level 1
\* the light is still 4.4e-13 above the floor after 2400 of them
LightRunsOutOneTickLater ==
    [][/\ LightStep
       /\ STPlaying' => frame' <= LightTicks(globals'.LIGHT_SHRINK_RATE)]_vars

\* a run of level 1 that the light ended on the tick after the last one the
\* bound allows
C14_Witness ==
    /\ program = "ST" /\ game.level = 1
    /\ game.game_over /\ ~game.win
    /\ frame = LightTicks(globals.LIGHT_SHRINK_RATE) + 1

----------------------------------------------------------------------------
(* Claims about missing sound files *)

\* the flags of the game that a frame may change, the sound switch aside
SndGameState(run) ==
    IF game.title = "ST" THEN [run.vars EXCEPT !.sound_enabled = TRUE] ELSE run.vars

\* C15: where loading a sound or the music failed, every handle is a DummySound
\* and no frame ends in an unhandled exception, whatever it calls (the looping
\* slow_mo_sound.play(-1), the game-over sound, music stop, the music toggle,
\* restart); and the frames change the game as they do in a run with sound: the
\* flags of the two runs stay equal, and Shadow Tag's sound_enabled, which the
\* loading itself sets differently, is toggled alike.
C15_MissingAudioIsHarmless ==
    program = "SND" =>
        /\ game.dummy.handles = "dummy"
        /\ ~game.dummy.raised
        /\ SndGameState(game.dummy) = SndGameState(game.sound)
        /\ game.title = "ST" =>
               game.dummy.vars.sound_enabled = ~game.sound.vars.sound_enabled

\* Time Runners without sound files ended a frame in slow motion and game over
\* (the frame called slow_mo_sound.play(-1) and game_over_sound.play() on the
\* stand-ins), while the run with sound plays the loop and has stopped the music
C15_Witness ==
    /\ program = "SND" /\ game.title = "TR" /\ running
    /\ game.dummy.vars.game_over /\ game.dummy.vars.slow_mo_active
    /\ ~game.dummy.slow_mo /\ game.sound.slow_mo
    /\ game.sound.music = "stopped"

----------------------------------------------------------------------------
(* Claims about leaving the program *)

\* the events of a frame hold a request to leave: the window's close button
\* or, where escape says so, the Escape key
AsksToQuit(evs, escape) ==
    \E i \in 1..Len(evs) : evs[i] = "QUIT" \/ (escape /\ evs[i] = "K_ESCAPE")

\* handle_events() with the one event e ends the program, from the state the
\* step starts in
QuitsOn(e) ==
    /\ program = "TR" =>
           \A jump_pressed \in BOOLEAN : TRHandleEvents(<<e>>, jump_pressed) => ~running'
    /\ program = "ST" =>
           \A points \in Draws(MaxShadows, SpawnPoints), dirs \in Draws(MaxShadows, Directions) :
               STHandleEvents(<<e>>, points, dirs) => ~running'

\* the program ends in this step only on a request to leave
QuitsOnlyOnRequest(escapeTR) ==
    (running /\ ~running') =>
        /\ pc = "events"
        /\ program = "TR" =>
               \A evs \in EventSeqs(TREventKinds), jump_pressed \in BOOLEAN :
                   TRHandleEvents(evs, jump_pressed) => AsksToQuit(evs, escapeTR)
        /\ program = "ST" =>
               \A evs \in EventSeqs(STEventKinds) :
                  \A points \in Draws(MaxShadows, SpawnPoints),
                     dirs \in Draws(MaxShadows, Directions) :
                     STHandleEvents(evs, points, dirs) => AsksToQuit(evs, TRUE)

\* C16: in both games, and in every state (Intro, Playing, GameOver, Win), the
\* frame that handles an Escape key press or the closing of the window ends the
\* program, and the program ends in no other step.
C16_Original ==
    [][/\ QuitsOn("QUIT")
       /\ QuitsOn("K_ESCAPE")
       /\ QuitsOnlyOnRequest(TRUE)]_vars

\* what holds instead: closing the window ends both games, Escape ends Shadow
\* Tag, and nothing else ends either; Time Runners reads Escape as any other key
QuitEndsBothEscapeOnlyShadowTag ==
    [][/\ QuitsOn("QUIT")
       /\ program = "ST" => QuitsOn("K_ESCAPE")
       /\ QuitsOnlyOnRequest(FALSE)]_vars

----------------------------------------------------------------------------
(* Claims about the past runner as a delayed copy *)

\* the past runner leaves the ground in this step
PastStartsJump == ~game.past_runner.is_jumping /\ game'.past_runner.is_jumping

\* tick k - DELAY_FRAMES has been run and its height is on record after tick k
DelayedTickKnown == Len(hist'.trail) = DELAY_FRAMES + 1

\* C17: in Time Runners the past runner starts a jump on Playing tick k exactly
\* when the present runner started one on tick k - 120, and after every Playing
\* tick k its height above its ground line is the height the present runner had
\* above its own after tick k - 120, slow motion or not.
C17_Original ==
    [][/\ (SampledStep /\ ~game.game_over) =>
              (PastStartsJump <=> (frame - DELAY_FRAMES) \in hist.starts)
       /\ (PlayingUpdate /\ DelayedTickKnown) =>
              Height(game'.past_runner, PastGround) = hist'.trail[1]]_vars

\* what holds of the starts: the past runner starts a jump on Playing tick k
\* exactly when the key was down on tick k - 120 and it is not in a jump
PastJumpsOnDelayedKey ==
    [][(SampledStep /\ ~game.game_over) =>
           (PastStartsJump <=>
               ((frame - DELAY_FRAMES) \in pressed /\ ~game.past_runner.is_jumping))]_vars

\* the past runner is in the jump that the key of tick PressStart gave it 120
\* ticks later, in slow motion, and is not as high after its first tick as the
\* present runner was after its own
C17_Witness ==
    /\ program = "TR" /\ ~game.game_over /\ pc = "events"
    /\ PressStart \in pressed /\ frame = PressStart + DELAY_FRAMES + 1
    /\ game.past_runner.is_jumping /\ game.slow_mo_active
    /\ Len(hist.trail) = DELAY_FRAMES + 1
    /\ Height(game.past_runner, PastGround) < hist.trail[1]

----------------------------------------------------------------------------
(* Claims about the frames outside Playing *)

\* what the claim lists of the game: the replay buffer, the runners' y, vel_y
\* and is_jumping (the runners' x never changes), the obstacles and the score
FrameState(g) ==
    [action_history |-> g.action_history,
     present_runner |-> g.present_runner,
     past_runner |-> g.past_runner,
     present_obstacles |-> g.present_obstacles,
     past_obstacles |-> g.past_obstacles,
     score |-> g.score]

\* a call of handle_events() or update() that starts and ends in Intro
StaysInIntro == program = "TR" /\ game.show_intro /\ game'.show_intro

\* a call of handle_events() or update() that starts and ends in GameOver: none
\* of its events is a restart key
StaysInGameOver ==
    /\ program = "TR" /\ ~game.show_intro /\ game.game_over
    /\ game'.game_over /\ hist'.restart = "none"

\* C18: the two calls of a Time Runners frame spent in Intro or in GameOver,
\* with no restart key among its events, leave the replay buffer, both runners,
\* the obstacles and the score as they were, whatever keys are held.
C18_Original ==
    [][(StaysInIntro \/ StaysInGameOver) => FrameState(game') = FrameState(game)]_vars

\* what holds: Intro frames and the update() of a GameOver frame change nothing
\* of it; the handle_events() of a GameOver frame goes on sampling
OnlySamplingGoesOnInGameOver ==
    [][/\ StaysInIntro => FrameState(game') = FrameState(game)
       /\ (StaysInGameOver /\ pc = "update") => FrameState(game') = FrameState(game)
       /\ (StaysInGameOver /\ pc = "events" /\ running') =>
              \E jump_pressed \in BOOLEAN :
                  FrameState(game') = FrameState(TRSample(game, jump_pressed).g)]_vars

\* GameOver frames have moved the buffer: the sample of the key press of tick
\* PressStart + 120 is further down the deque than the Playing ticks since
\* (jump_log.n of them) have pushed it
C18_Witness ==
    /\ program = "TR" /\ game.game_over /\ running /\ pc = "events"
    /\ (PressStart + DELAY_FRAMES) \in pressed
    /\ jump_log.active /\ frame - (PressStart + DELAY_FRAMES) > jump_log.n
    /\ frame - 1 - (PressStart + DELAY_FRAMES) < HistoryLen
    /\ game.action_history[HistoryLen - (frame - 1 - (PressStart + DELAY_FRAMES))]

----------------------------------------------------------------------------
(* Claims about slow motion *)

\* time_factor is below 1.0 exactly when slow_mo_active is set
SlowedIffActive == (game.time_factor < SCALE) <=> game.slow_mo_active

\* C19: in every state of Time Runners time_factor is at least SLOW_MO_FACTOR
\* (0.5) and at most 1.0, and it is below 1.0 exactly when slow_mo_active is
\* True.
C19_Original ==
    program = "TR" =>
        /\ SLOW_MO_FACTOR <= game.time_factor
        /\ game.time_factor <= SCALE
        /\ SlowedIffActive

\* what holds: an obstacle counts as ahead until its left edge has passed the
\* runner's left edge, so the distance from the runner's right edge goes down to
\* -RUNNER_WIDTH and time_factor stays above
\* SLOW_MO_FACTOR - (1 - SLOW_MO_FACTOR) * RUNNER_WIDTH / SLOW_MO_DISTANCE
TimeFactorAboveOverlapFloor ==
    program = "TR" =>
        /\ game.time_factor >
               SLOW_MO_FACTOR
                   - Div(Mul(SCALE - SLOW_MO_FACTOR, Fx(RUNNER_WIDTH)), Fx(SLOW_MO_DISTANCE))
        /\ game.time_factor <= SCALE
        /\ SlowedIffActive

\* a runner is over an obstacle that has not passed it yet, and the tick ran
\* slower than SLOW_MO_FACTOR
C19_Witness ==
    /\ program = "TR" /\ ~game.game_over /\ game.slow_mo_active
    /\ game.time_factor < SLOW_MO_FACTOR
    /\ \E d \in Ahead(game.present_obstacles, game.present_runner)
             \cup Ahead(game.past_obstacles, game.past_runner) : d < 0

----------------------------------------------------------------------------
(* Claims about the two ends of Shadow Tag *)

\* C20: in no state of Shadow Tag are win and game_over both True (so that a run
\* the light ended is never restarted as a win).
C20_Original == program = "ST" => ~(game.win /\ game.game_over)

\* what follows where both are set: SPACE restarts the run as a win, one level up
LightOutRunCountsAsWin ==
    [][(program = "ST" /\ game.win /\ game.game_over /\ hist'.restart # "none") =>
           /\ hist'.restart = "win"
           /\ game'.level = game.level + 1
           /\ globals'.SHADOW_COUNT = globals.SHADOW_COUNT + SHADOW_COUNT_STEP]_vars

\* the last shadows were tagged on the tick that brought the light to the floor
C20_Witness ==
    /\ program = "ST" /\ game.win /\ game.game_over
    /\ game.player.light_radius = FromInt(MIN_LIGHT_RADIUS)
    /\ \A i \in 1..Len(game.shadows) :
           game.shadows[i].tagged /\ game.shadows[i].fade_out = FADE_START
    /\ game.score = TAG_SCORE * Len(game.shadows)

----------------------------------------------------------------------------
(* Claims about the levels of Shadow Tag *)

\* n * x for a whole number n, exact
RECURSIVE FTimes(_, _)
FTimes(n, x) == IF n = 0 THEN <<0, 0, 0>> ELSE FSum(FTimes(n - 1, x), x)

\* the floats 0.05 + 0.01 * (level - 1) and the count 5 + 2 * (level - 1)
LevelRate(level) == FAdd(LIGHT_SHRINK_RATE, FRound(FTimes(level - 1, SHRINK_RATE_STEP)))
LevelShadows(level) == SHADOW_COUNT + SHADOW_COUNT_STEP * (level - 1)

\* level, SHADOW_COUNT and LIGHT_SHRINK_RATE go up by 1, 2 and 0.01 in this step
LevelRaised ==
    /\ game'.level = game.level + 1
    /\ globals'.SHADOW_COUNT = globals.SHADOW_COUNT + SHADOW_COUNT_STEP
    /\ globals'.LIGHT_SHRINK_RATE = FAdd(globals.LIGHT_SHRINK_RATE, SHRINK_RATE_STEP)

LevelKept == game'.level = game.level /\ globals' = globals

\* a call of handle_events() that restarted the run
STRestarts == program = "ST" /\ hist'.restart # "none"

\* what every state shows of the level: the run has 5 + 2 * (level - 1) shadows
\* and the light shrinks by 0.05 + 0.01 * (level - 1) a tick
LevelShows ==
    /\ Len(game.shadows) = LevelShadows(game.level)
    /\ globals.SHADOW_COUNT = LevelShadows(game.level)
    /\ globals.LIGHT_SHRINK_RATE = LevelRate(game.level)

\* C21: in Shadow Tag a SPACE after a win raises level by 1, the shadow count by
\* 2 and the shrink rate by 0.01, a restart after GameOver changes none of them,
\* level never decreases, and in every state the run has 5 + 2 * (level - 1)
\* shadows and the rate is 0.05 + 0.01 * (level - 1).
C21_Original ==
    [][program = "ST" =>
          /\ (STRestarts /\ game.win) => LevelRaised
          /\ (STRestarts /\ game.game_over) => LevelKept
          /\ game'.level >= game.level
          /\ LevelShows]_vars

\* what holds: the restart goes by the win flag alone, so a run that the light
\* ended on the tick of its last tag is restarted one level up
RestartGoesByWinFlag ==
    [][program = "ST" =>
          /\ (STRestarts /\ game.win) => LevelRaised
          /\ (STRestarts /\ ~game.win) => LevelKept
          /\ ~STRestarts => LevelKept
          /\ game'.level >= game.level
          /\ LevelShows]_vars

----------------------------------------------------------------------------
(* Claims about tagging *)

Tagged(g) == {i \in 1..Len(g.shadows) : g.shadows[i].tagged}

\* C22: in every state of Shadow Tag score is 100 times the number of tagged
\* shadows of the run; and in every step that is not a restart a tagged shadow
\* stays tagged and where it is, and the score grows by 100 for every shadow
\* the step tags, so each shadow is counted once.
C22_ScoreCountsTagged ==
    [][program = "ST" =>
          /\ game.score = TAG_SCORE * Cardinality(Tagged(game))
          /\ hist'.restart = "none" =>
                /\ Len(game'.shadows) = Len(game.shadows)
                /\ \A i \in Tagged(game) :
                      /\ game'.shadows[i].tagged
                      /\ game'.shadows[i].x = game.shadows[i].x
                      /\ game'.shadows[i].y = game.shadows[i].y
                /\ game'.score = game.score
                      + TAG_SCORE * Cardinality(Tagged(game') \ Tagged(game))
          /\ hist'.restart # "none" => (game'.score = 0 /\ Tagged(game') = {})]_vars

\* a shadow was tagged some ticks ago and has stayed in reach of the player
\* while another is still free: the run goes on and the score counts the
\* tagged ones once
C22_Witness ==
    /\ program = "ST" /\ ~game.win /\ ~game.game_over
    /\ \E i \in Tagged(game) :
          /\ game.shadows[i].fade_out < FADE_START
          /\ CollidesWith(game.player, game.shadows[i])
    /\ Tagged(game) # 1..Len(game.shadows)
    /\ game.score = TAG_SCORE * Cardinality(Tagged(game))

----------------------------------------------------------------------------
(* Claims about the obstacles of Time Runners *)

\* the least and the most random.randint(45, 90) gives
MIN_SPAWN_DELAY == 45
MAX_SPAWN_DELAY == 90

\* a Playing tick that spawned a pair of obstacles: obstacle_timer is back at 0
Spawns == PlayingUpdate /\ game'.obstacle_timer = 0

SamePattern(g) ==
    /\ Len(g.present_obstacles) = Len(g.past_obstacles)
    /\ \A i \in 1..Len(g.present_obstacles) :
          /\ g.present_obstacles[i].x = g.past_obstacles[i].x
          /\ g.present_obstacles[i].width = g.past_obstacles[i].width

\* what a Playing tick at time factor tf made of the list before: the
\* obstacles that stay are the old ones, in order, each OBSTACLE_SPEED * tf
\* further left, behind them the new one if the tick spawned, and none that
\* stays has its right edge left of the screen
MovedAndCulled(before, after, spawned, tf) ==
    LET gone == Len(before) + (IF spawned THEN 1 ELSE 0) - Len(after)
    IN  /\ gone >= 0
        /\ \A i \in 1..Len(after) :
              /\ ~(after[i].x + Fx(after[i].width) < 0)
              /\ after[i].x = (IF i + gone <= Len(before) THEN before[i + gone].x
                               ELSE Fx(SCREEN_WIDTH)) - OBSTACLE_SPEED * tf
        /\ \A i \in 1..gone :
              before[i].x - OBSTACLE_SPEED * tf + Fx(before[i].width) < 0

\* C24: in every state of Time Runners present_obstacles and past_obstacles have
\* the same length and their i-th obstacles the same x and width: a Playing
\* tick spawns into both, moves the obstacles of both by the same amount and
\* removes from both the ones that have left the screen.
C24_SameObstaclePattern ==
    [][program = "TR" =>
          /\ SamePattern(game)
          /\ SamePattern(game')
          /\ PlayingUpdate =>
                /\ MovedAndCulled(game.present_obstacles, game'.present_obstacles,
                                  Spawns, game'.time_factor)
                /\ MovedAndCulled(game.past_obstacles, game'.past_obstacles,
                                  Spawns, game'.time_factor)]_vars

\* the first obstacle has left both timelines and two of different widths are
\* still on both
C24_Witness ==
    /\ program = "TR" /\ ~game.game_over
    /\ hist.removed >= 1
    /\ Len(game.present_obstacles) >= 2
    /\ SamePattern(game)
    /\ game.present_obstacles[1].width # game.present_obstacles[2].width

----------------------------------------------------------------------------
(* Claims about the sound switch of Shadow Tag *)

SoundEffects == {"tag_sound", "light_low_sound", "level_complete_sound", "game_over_sound"}

\* the statements hold a play() of a sound effect
PlaysEffect(stmts) ==
    \E i \in 1..Len(stmts) :
        stmts[i].op = "call" /\ stmts[i].a \in SoundEffects /\ stmts[i].b = "play()"

\* C25: in Shadow Tag an S key-down toggles sound_enabled, and a tick that
\* starts with the sound effects toggled off plays none of them (tag, light-low
\* warning, level-complete, game-over), in the run whose sound files loaded.
C25_Original ==
    [][(program = "SND" /\ game.title = "ST") =>
          /\ SndSTHandleEvents(<<"K_s">>) =>
                 game'.sound.vars.sound_enabled = ~game.sound.vars.sound_enabled
          /\ ~game.sound.vars.sound_enabled =>
                 \A step_sound, tagged, cleared, out, low \in BOOLEAN :
                     SndSTFrameUpdate(step_sound, tagged, cleared, out, low) =>
                         ~PlaysEffect(SndSTUpdate(game.sound, step_sound, tagged,
                                                  cleared, out, low))]_vars

\* what holds: S toggles sound_enabled, and a Playing tick plays the tag sound
\* when it tags, the level-complete sound when it wins, the game-over sound
\* when the light is out and the warning when the light gets low, whatever
\* sound_enabled is
EffectsPlayWhateverTheSwitch ==
    [][(program = "SND" /\ game.title = "ST") =>
          /\ SndSTHandleEvents(<<"K_s">>) =>
                 game'.sound.vars.sound_enabled = ~game.sound.vars.sound_enabled
          /\ (~game.sound.vars.game_over /\ ~game.sound.vars.win) =>
                 \A step_sound, tagged, cleared, out, low \in BOOLEAN :
                     SndSTFrameUpdate(step_sound, tagged, cleared, out, low) =>
                         (PlaysEffect(SndSTUpdate(game.sound, step_sound, tagged,
                                                   cleared, out, low))
                             <=> \/ tagged \/ cleared \/ out
                                 \/ low /\ ~game.sound.vars.light_warning_played)]_vars

\* the sound files loaded, the sound effects are toggled off, and the run is won
C25_Witness ==
    /\ program = "SND" /\ game.title = "ST" /\ pc = "events"
    /\ game.sound.handles = "real" /\ ~game.sound.vars.sound_enabled
    /\ game.sound.vars.win /\ ~game.sound.vars.game_over

----------------------------------------------------------------------------
(* Claims about the jump *)

\* the runner stands on its ground line, at rest
Grounded(r, ground_y) == r.y + Fx(RUNNER_HEIGHT) = Fx(ground_y) /\ r.vel_y = 0

\* what a call of handle_events() that is no restart, or of update() at time
\* factor tf, did to a runner: a runner in a jump is left as it is by
\* handle_events() (a jump request changes nothing of it), one on the ground
\* takes off at JUMP_STRENGTH or stays; update() adds gravity to vel_y until
\* the update that lands it
JumpStep(r0, r1, ground_y, tf) ==
    /\ (pc = "events" /\ r0.is_jumping) => r1 = r0
    /\ (pc = "events" /\ ~r0.is_jumping) =>
           \/ r1 = r0
           \/ r1 = [r0 EXCEPT !.vel_y = Fx(JUMP_STRENGTH), !.is_jumping = TRUE]
    /\ (PlayingUpdate /\ r1.is_jumping) =>
           /\ r0.is_jumping
           /\ r1.vel_y = r0.vel_y + GRAVITY * tf
    /\ (PlayingUpdate /\ ~r1.is_jumping) => Grounded(r1, ground_y)

\* C26: in every state of Time Runners a runner with is_jumping = False stands
\* on its ground line (y + height = ground_y) with vel_y = 0; a jump request
\* while is_jumping = True changes nothing of the runner, so there is no double
\* jump, and from take-off to the update that lands it vel_y changes by
\* gravity only.
C26_NoDoubleJump ==
    [][program = "TR" =>
          /\ ~game.present_runner.is_jumping => Grounded(game.present_runner, PresentGround)
          /\ ~game.past_runner.is_jumping => Grounded(game.past_runner, PastGround)
          /\ hist'.restart = "none" =>
                /\ JumpStep(game.present_runner, game'.present_runner, PresentGround,
                            game'.time_factor)
                /\ JumpStep(game.past_runner, game'.past_runner, PastGround,
                            game'.time_factor)]_vars

\* the jump key is down on the two frames from PressStart on: the present
\* runner took off on the first, and the second, one update into the jump, has
\* left its velocity at JUMP_STRENGTH + GRAVITY
C26_Witness ==
    /\ program = "TR" /\ pc = "update" /\ ~game.game_over
    /\ {PressStart, PressStart + 1} \subseteq pressed /\ frame = PressStart + 2
    /\ game.present_runner.is_jumping
    /\ game.present_runner.vel_y = Fx(JUMP_STRENGTH + GRAVITY)

----------------------------------------------------------------------------
(* Claims about the edges of the screen *)

\* a circle of the given radius around (x, y) lies inside the screen
Inside(e, radius) ==
    /\ Fx(radius) <= e.x /\ e.x <= Fx(SCREEN_WIDTH - radius)
    /\ Fx(radius) <= e.y /\ e.y <= Fx(SCREEN_HEIGHT - radius)

\* some edge of the screen touches the circle
AtEdge(e, radius) ==
    \/ e.x = Fx(radius) \/ e.x = Fx(SCREEN_WIDTH - radius)
    \/ e.y = Fx(radius) \/ e.y = Fx(SCREEN_HEIGHT - radius)

\* C27: in every state of Shadow Tag the player's circle lies inside the
\* 800 x 600 screen, whatever arrow keys are held, and so does the circle of
\* every shadow, after reset() and after every Shadow.update().
C27_EntitiesStayInside ==
    program = "ST" =>
        /\ Inside(game.player, PLAYER_SIZE)
        /\ \A i \in 1..Len(game.shadows) : Inside(game.shadows[i], SHADOW_SIZE)

\* the player has been held against an edge for some ticks, and a free shadow
\* is at an edge too
C27_Witness ==
    /\ program = "ST" /\ ~game.game_over /\ ~game.win
    /\ keys # {} /\ AtEdge(game.player, PLAYER_SIZE)
    /\ frame * PLAYER_SPEED > SCREEN_WIDTH \div 2
    /\ \E i \in 1..Len(game.shadows) :
          ~game.shadows[i].tagged /\ AtEdge(game.shadows[i], SHADOW_SIZE)

----------------------------------------------------------------------------
(* C28: the intro's page stays in range and the intro is shown once *)

\* draw_intro() reads story_text[intro_page]: the page is one of the story's
StoryPageInRange(g) == g.show_intro => g.intro_page \in 0..(INTRO_PAGES - 1)

\* C28: while the intro is shown its page is 0, 1 or 2, also when several
\* key-downs arrive in one frame, and once the intro is over no step, a
\* restart included, shows it again
C28_IntroPagingInRange ==
    [][program = "TR" =>
          /\ StoryPageInRange(game)
          /\ StoryPageInRange(game')
          /\ (~game.show_intro => ~game'.show_intro)
          /\ (hist'.restart = "game_over" => ~game'.show_intro)]_vars

\* several key-downs of one frame turned the pages and ended the intro
C28_Witness ==
    /\ program = "TR"
    /\ ~game.show_intro
    /\ game.intro_page = INTRO_PAGES
    /\ hist.turned >= 2

====
